---- MODULE Spec2Model ----
(***************************************************************************)
(* Kill-zone signal engine (operacional_xauusd.py), heuristic entry plan   *)
(* (xau_entry_heuristics.py) and ATR(14) estimator                         *)
(* (xau_asia_oanda_build.py) as state machines.                            *)
(*                                                                         *)
(* Numbers: Python floats are modelled as exact rationals <<n, d>> with    *)
(* d > 0 and gcd(n, d) = 1, so equality of values is equality of pairs.    *)
(* Optional values (Python None) are sequences: <<>> is None, <<x>> is x;  *)
(* an optional float is <<>> or the rational itself.                       *)
(* Some(x) wraps, x[1] unwraps.                                            *)
(* Times of day are seconds since 00:00:00.                                *)
(***************************************************************************)
EXTENDS Integers, Sequences, FiniteSets, TLC

None == <<>>
Some(x) == <<x>>

\* F applied to the value of e, with e evaluated once
Let(e, F(_)) == CHOOSE r \in {F(x) : x \in {e}} : TRUE

(***************************************************************************)
(* Exact rational arithmetic standing for float arithmetic.                *)
(***************************************************************************)
Abs(i) == IF i < 0 THEN -i ELSE i

RECURSIVE Gcd(_, _)
Gcd(a, b) == IF b = 0 THEN a ELSE Gcd(b, a % b)

Rat(n, d) == LET g == Gcd(Abs(n), Abs(d))
                 s == IF d < 0 THEN -1 ELSE 1
             IN  <<(s * n) \div g, (s * d) \div g>>

R(i) == <<i, 1>>
RAdd(x, y) == Rat(x[1] * y[2] + y[1] * x[2], x[2] * y[2])
RSub(x, y) == Rat(x[1] * y[2] - y[1] * x[2], x[2] * y[2])
RMul(x, y) == Rat(x[1] * y[1], x[2] * y[2])
RDiv(x, y) == Rat(x[1] * y[2], x[2] * y[1])
RLt(x, y) == x[1] * y[2] < y[1] * x[2]
RLe(x, y) == x[1] * y[2] <= y[1] * x[2]
RGt(x, y) == RLt(y, x)
RGe(x, y) == RLe(y, x)
RAbs(x) == <<Abs(x[1]), x[2]>>
RMax(x, y) == IF RLt(x, y) THEN y ELSE x
RMin(x, y) == IF RLt(y, x) THEN y ELSE x
RIsInt(x) == x[2] = 1

\* floor of a rational (TLC's \div rounds towards minus infinity)
RFloor(x) == x[1] \div x[2]

\* Python int(x): truncation towards zero
PyInt(x) == IF x[1] >= 0 THEN x[1] \div x[2] ELSE -((-x[1]) \div x[2])

\* Python round(x): nearest integer, ties to the even one
PyRound(x) ==
    LET f == RFloor(x)
        twice == RSub(RMul(R(2), x), R(2 * f))   \* 2 * (x - f), in [0, 2)
    IN  IF RLt(twice, R(1)) THEN f
        ELSE IF RGt(twice, R(1)) THEN f + 1
        ELSE IF f % 2 = 0 THEN f ELSE f + 1

\* Python round(x, 2)
PyRound2(x) == Rat(PyRound(RMul(x, R(100))), 100)

\* x % m = 0 for a float x and a positive integer m
RDivisible(x, m) == RIsInt(x) /\ x[1] % m = 0


(***************************************************************************)
(* operacional_xauusd.py: configuration (ConfiguracaoOperacional defaults) *)
(***************************************************************************)
HM(h, m) == h * 3600 + m * 60

kill_zone_inicio == HM(23, 0)
kill_zone_fim == HM(6, 0)

janelas_prioritarias ==
    << [inicio |-> HM(23, 20), fim |-> HM(0, 30), direcao_esperada |-> "VENDA"],
       [inicio |-> HM(0, 30),  fim |-> HM(1, 30), direcao_esperada |-> "AMBAS"],
       [inicio |-> HM(3, 0),   fim |-> HM(4, 0),  direcao_esperada |-> "COMPRA"],
       [inicio |-> HM(5, 0),   fim |-> HM(6, 0),  direcao_esperada |-> "VENDA"] >>

max_operacoes_por_janela == 2
stop_minimo == R(35)
stop_maximo == R(65)
stop_apertado_limite == R(10)
numero_alvos == 4
tamanho_min_pavio == R(2)
toque_tolerancia == Rat(1, 2)
forca_rejeicao_min == Rat(3, 2)

(***************************************************************************)
(* AnalisadorNiveisPsicologicos                                            *)
(***************************************************************************)
identificar_step_do_dia(preco_atual) ==
    IF RLt(preco_atual, R(4800)) THEN R(50)
    ELSE IF RLt(preco_atual, R(5000)) THEN R(10)
    ELSE R(20)

\* the tests in the opposite order: divisibility by 10 decided first
calcular_forca_ordem_inversa(nivel) ==
    IF RDivisible(nivel, 10) THEN 2
    ELSE IF RDivisible(nivel, 20) THEN 3
    ELSE IF RDivisible(nivel, 50) THEN 4
    ELSE IF RDivisible(nivel, 100) THEN 5
    ELSE 1

calcular_forca_nivel(nivel) ==
    IF RDivisible(nivel, 100) THEN 5
    ELSE IF RDivisible(nivel, 50) THEN 4
    ELSE IF RDivisible(nivel, 20) THEN 3
    ELSE IF RDivisible(nivel, 10) THEN 2
    ELSE 1

identificar_tipo_nivel(nivel, preco_atual) ==
    IF RLt(nivel, preco_atual) THEN "suporte"
    ELSE IF RGt(nivel, preco_atual) THEN "resistencia"
    ELSE "ambos"

\* "step_dia and step_dia > 0": None and 0 are falsy
StepGiven(step_dia) == step_dia # None /\ RGt(step_dia, R(0))

\* list.sort(key=...): a stable sort, ascending by key. keys[i] is the key of
\* seq[i]; an element's place is the number of elements that go before it.
SortPlaces(keyed) ==
    {<<Cardinality({b \in keyed : RLt(b[2], a[2]) \/ (b[2] = a[2] /\ b[1] < a[1])}) + 1, a[1]>> :
        a \in keyed}

\* a sort that leaves the list as it was built
SemOrdenar(seq, keys) == seq

\* a sort that puts the later of two equal keys first
OrdenarInstavel(seq, keys) ==
    Let({<<i, keys[i]>> : i \in 1..Len(seq)}, LAMBDA keyed :
        [p \in 1..Len(seq) |->
            seq[(CHOOSE a \in keyed :
                    Cardinality({b \in keyed : RLt(b[2], a[2]) \/ (b[2] = a[2] /\ b[1] > a[1])}) + 1 = p)[1]]])

StableSortByKey(seq, keys) ==
    Let({<<i, keys[i]>> : i \in 1..Len(seq)}, LAMBDA keyed :
    Let(SortPlaces(keyed), LAMBDA placed :
        [p \in 1..Len(seq) |-> seq[(CHOOSE r \in placed : r[1] = p)[2]]]))

get_niveis_psicologicos(preco_atual, step_dia) ==
    LET step == IF StepGiven(step_dia) THEN step_dia ELSE identificar_step_do_dia(preco_atual)
        base == RMul(R(PyRound(RDiv(preco_atual, step))), step)
        valor(k) == RAdd(base, RMul(R(k), step))
        \* offsets -40..40 in ascending order, non-positive values skipped: the
        \* values grow with k, so the list holds the offsets first..40
        lista(first) ==
            LET n == 41 - first
                niveis == [i \in 1..n |->
                             Let(valor(first + i - 1), LAMBDA v :
                                 [valor |-> v,
                                  step  |-> step,
                                  tipo  |-> identificar_tipo_nivel(v, preco_atual),
                                  forca |-> calcular_forca_nivel(v)])]
                keys == [i \in 1..n |-> RAbs(RSub(valor(first + i - 1), preco_atual))]
            IN  SubSeq(StableSortByKey(niveis, keys), 1, IF n < 20 THEN n ELSE 20)
    IN  Let({k \in -40..40 : RGt(valor(k), R(0))}, LAMBDA offs :
            IF offs = {} THEN <<>>
            ELSE lista(CHOOSE k \in offs : \A j \in offs : k <= j))

(***************************************************************************)
(* DetectorRejeicao.detectar_rejeicao: <<rejeitou, forca>>                  *)
(***************************************************************************)
\* wicks measured from the close alone
detectar_rejeicao_pelo_fecho(candle, nivel, direcao_esperada) ==
    LET pavio_superior == RSub(candle.high, candle.close)
        pavio_inferior == RSub(candle.close, candle.low)
        compra == /\ direcao_esperada = "COMPRA"
                  /\ RLe(candle.low, RAdd(nivel, toque_tolerancia))
                  /\ RGe(pavio_inferior, tamanho_min_pavio)
        venda  == /\ direcao_esperada = "VENDA"
                  /\ RGe(candle.high, RSub(nivel, toque_tolerancia))
                  /\ RGe(pavio_superior, tamanho_min_pavio)
    IN  IF compra THEN <<TRUE, RMin(RDiv(pavio_inferior, tamanho_min_pavio), R(3))>>
        ELSE IF venda THEN <<TRUE, RMin(RDiv(pavio_superior, tamanho_min_pavio), R(3))>>
        ELSE <<FALSE, R(0)>>

detectar_rejeicao(candle, nivel, direcao_esperada) ==
    LET pavio_superior == RSub(candle.high, RMax(candle.close, candle.open))
        pavio_inferior == RSub(RMin(candle.close, candle.open), candle.low)
        compra == /\ direcao_esperada = "COMPRA"
                  /\ RLe(candle.low, RAdd(nivel, toque_tolerancia))
                  /\ RGe(pavio_inferior, tamanho_min_pavio)
        venda  == /\ direcao_esperada = "VENDA"
                  /\ RGe(candle.high, RSub(nivel, toque_tolerancia))
                  /\ RGe(pavio_superior, tamanho_min_pavio)
    IN  IF compra THEN <<TRUE, RMin(RDiv(pavio_inferior, tamanho_min_pavio), R(3))>>
        ELSE IF venda THEN <<TRUE, RMin(RDiv(pavio_superior, tamanho_min_pavio), R(3))>>
        ELSE <<FALSE, R(0)>>

(***************************************************************************)
(* CalculadorStopEstrutural. contexto is a record whose fields             *)
(* minima_recente / maxima_recente are None when the key is absent.        *)
(***************************************************************************)
\* a stop at the recent low or high itself, without the 2 points beyond it
calcular_stop_sem_margem(direcao, nivel_testado, contexto, stop_min) ==
    IF direcao = "BUY"
    THEN LET minima == IF contexto.minima_recente # None THEN contexto.minima_recente
                       ELSE RSub(nivel_testado, stop_min)
         IN  PyRound2(RMin(minima, RSub(nivel_testado, stop_min)))
    ELSE LET maxima == IF contexto.maxima_recente # None THEN contexto.maxima_recente
                       ELSE RAdd(nivel_testado, stop_min)
         IN  PyRound2(RMax(maxima, RAdd(nivel_testado, stop_min)))

calcular_stop(direcao, nivel_testado, contexto, stop_min) ==
    IF direcao = "BUY"
    THEN LET minima == IF contexto.minima_recente # None THEN contexto.minima_recente
                       ELSE RSub(nivel_testado, stop_min)
         IN  PyRound2(RMin(RSub(minima, R(2)), RSub(nivel_testado, stop_min)))
    ELSE LET maxima == IF contexto.maxima_recente # None THEN contexto.maxima_recente
                       ELSE RAdd(nivel_testado, stop_min)
         IN  PyRound2(RMax(RAdd(maxima, R(2)), RAdd(nivel_testado, stop_min)))

risco_pontos(entrada, stop) == RAbs(RSub(entrada, stop))

(***************************************************************************)
(* GeradorAlvos.gerar_alvos                                                *)
(***************************************************************************)
\* targets counted from the rounded price itself, whichever side it lies on
gerar_alvos_desde_base(entrada, direcao, step_dia) ==
    LET base == RMul(R(PyRound(RDiv(entrada, step_dia))), step_dia)
    IN  [p \in 1..numero_alvos |->
            PyRound2(IF direcao = "BUY" THEN RAdd(base, RMul(R(p - 1), step_dia))
                     ELSE RSub(base, RMul(R(p - 1), step_dia)))]

gerar_alvos(entrada, direcao, step_dia) ==
    LET base == RMul(R(PyRound(RDiv(entrada, step_dia))), step_dia)
        alvo(i) == IF direcao = "BUY" THEN RAdd(base, RMul(R(i), step_dia))
                   ELSE RSub(base, RMul(R(i), step_dia))
        ok(i) == IF direcao = "BUY" THEN RGt(alvo(i), entrada) ELSE RLt(alvo(i), entrada)
        kept == {i \in 1..numero_alvos : ok(i)}
        nth(p) == CHOOSE i \in kept : Cardinality({j \in kept : j < i}) = p - 1
    IN  [p \in 1..Cardinality(kept) |-> PyRound2(alvo(nth(p)))]


(***************************************************************************)
(* Kill-zone windows                                                       *)
(***************************************************************************)
\* a window that leaves its closing instant out
time_in_window_open_end(t, start, end) ==
    IF start <= end THEN start <= t /\ t < end
    ELSE t >= start \/ t < end

_time_in_window(t, start, end) ==
    IF start <= end THEN start <= t /\ t <= end
    ELSE t >= start \/ t <= end

verificar_horario_permitido(agora) ==
    _time_in_window(agora, kill_zone_inicio, kill_zone_fim)

\* time.strftime('%H:%M')
Digits == <<"0", "1", "2", "3", "4", "5", "6", "7", "8", "9">>
TwoDigits(n) == Digits[(n \div 10) + 1] \o Digits[(n % 10) + 1]
strftime_HM(t) == TwoDigits(t \div 3600) \o ":" \o TwoDigits((t % 3600) \div 60)

JanelaLabel(j) == strftime_HM(j.inicio) \o "-" \o strftime_HM(j.fim)

\* a scan that keeps the last matching window instead of the first
janela_atual_last_match(agora) ==
    IF ~verificar_horario_permitido(agora) THEN <<FALSE, None, None>>
    ELSE LET hits == {i \in 1..Len(janelas_prioritarias) :
                         _time_in_window(agora, janelas_prioritarias[i].inicio,
                                         janelas_prioritarias[i].fim)}
         IN  IF hits = {} THEN <<TRUE, Some("OBSERVACAO"), Some("AMBAS")>>
             ELSE LET i == CHOOSE k \in hits : \A m \in hits : k >= m
                  IN  <<TRUE, Some(JanelaLabel(janelas_prioritarias[i])),
                        Some(janelas_prioritarias[i].direcao_esperada)>>

\* <<permitido, janela_label, direcao_esperada>>, the last two optional strings
janela_atual(agora) ==
    IF ~verificar_horario_permitido(agora) THEN <<FALSE, None, None>>
    ELSE LET hits == {i \in 1..Len(janelas_prioritarias) :
                         _time_in_window(agora, janelas_prioritarias[i].inicio,
                                         janelas_prioritarias[i].fim)}
         IN  IF hits = {} THEN <<TRUE, Some("OBSERVACAO"), Some("AMBAS")>>
             ELSE LET i == CHOOSE k \in hits : \A m \in hits : k <= m
                  IN  <<TRUE, Some(JanelaLabel(janelas_prioritarias[i])),
                        Some(janelas_prioritarias[i].direcao_esperada)>>

Labels == {JanelaLabel(janelas_prioritarias[i]) : i \in 1..Len(janelas_prioritarias)}
              \cup {"OBSERVACAO"}

(***************************************************************************)
(* analisar_oportunidade, the part after the quota check: direction        *)
(* resolution and the first-match scan over the 5 nearest levels.          *)
(***************************************************************************)
\* str.upper() on the strings callers pass
str_upper(s) ==
    CASE s = "compra" -> "COMPRA"
      [] s = "venda"  -> "VENDA"
      [] s = "ambas"  -> "AMBAS"
      [] s = "suporte" -> "SUPORTE"
      [] s = "resistencia" -> "RESISTENCIA"
      [] s = "long"   -> "LONG"
      [] s = "short"  -> "SHORT"
      [] OTHER        -> s

\* (direcao_esperada or janela_dir or "AMBAS").upper(), invalid -> "AMBAS"
resolver_direcao(direcao_esperada, janela_dir) ==
    LET raw == IF direcao_esperada # None /\ direcao_esperada # Some("") THEN direcao_esperada[1]
               ELSE IF janela_dir # None /\ janela_dir # Some("") THEN janela_dir[1]
               ELSE "AMBAS"
        up == str_upper(raw)
    IN  IF up \in {"COMPRA", "VENDA", "AMBAS"} THEN up ELSE "AMBAS"

\* AMBAS taken as VENDA then COMPRA
directions_invertidas(direcao) ==
    IF direcao = "AMBAS" THEN <<"VENDA", "COMPRA">> ELSE <<direcao>>

directions_of(direcao) ==
    IF direcao = "AMBAS" THEN <<"COMPRA", "VENDA">> ELSE <<direcao>>

\* One (level, direction) candidate: None when it is skipped ("continue"),
\* else <<signal fields>>.
candidato(preco_atual, candle, contexto, nivel, d, step_eff, janela_label) ==
    LET rej == detectar_rejeicao(candle, nivel.valor, d)
        direcao == IF d = "COMPRA" THEN "BUY" ELSE "SELL"
        stop0 == calcular_stop(direcao, nivel.valor, contexto, stop_minimo)
        risco0 == risco_pontos(preco_atual, stop0)
        wide == RGt(risco0, stop_maximo)
        stop == IF wide
                THEN PyRound2(IF direcao = "SELL" THEN RAdd(preco_atual, stop_maximo)
                              ELSE RSub(preco_atual, stop_maximo))
                ELSE stop0
        risco == IF wide THEN risco_pontos(preco_atual, stop) ELSE risco0
        alvos == gerar_alvos(preco_atual, direcao, step_eff)
    IN  IF ~rej[1] \/ RLt(rej[2], forca_rejeicao_min) THEN None
        ELSE IF RLt(risco0, stop_apertado_limite) THEN None
        ELSE IF alvos = <<>> THEN None
        ELSE << [direcao        |-> direcao,
                 entrada        |-> PyRound2(preco_atual),
                 stop           |-> PyRound2(stop),
                 alvos          |-> alvos,
                 nivel_testado  |-> nivel.valor,
                 forca_rejeicao |-> rej[2],
                 risco_pontos   |-> risco,
                 janela         |-> janela_label] >>

\* The scan of analisar_oportunidade (lines 277-331):
\* None, or <<signal>> of the first qualifying (level, direction).
scan(preco_atual, candle, contexto, direcao_esperada, janela_label, janela_dir, step_dia) ==
    Let(get_niveis_psicologicos(preco_atual, step_dia), LAMBDA niveis :
        IF niveis = <<>> THEN None
        ELSE
        LET step_eff == IF StepGiven(step_dia) THEN step_dia ELSE niveis[1].step
            directions == directions_of(resolver_direcao(direcao_esperada, janela_dir))
            nl == IF Len(niveis) < 5 THEN Len(niveis) ELSE 5
            nd == Len(directions)
            \* pair number q = (level index - 1) * nd + direction index, in scan order
            cand(q) == candidato(preco_atual, candle, contexto,
                                 niveis[((q - 1) \div nd) + 1], directions[((q - 1) % nd) + 1],
                                 step_eff, janela_label)
        IN  Let({<<q, cand(q)>> : q \in 1..(nl * nd)}, LAMBDA cands :
            Let({c \in cands : c[2] # None}, LAMBDA hits :
                IF hits = {} THEN None
                ELSE (CHOOSE c \in hits : \A r \in hits : c[1] <= r[1])[2])))

(***************************************************************************)
(* Inputs of the engine specifications.                                     *)
(***************************************************************************)
MaxDay == 2
MaxCalls == 4

DayKeys == 1..MaxDay

\* 22:00 is outside the session; 23:30 and 00:10 lie in the window 23:20-00:30
\* (VENDA), either side of midnight; 03:30 in the window 03:00-04:00 (COMPRA).
Agoras == {HM(22, 0), HM(23, 30), HM(0, 10), HM(3, 30)}

\* A candle that closes at the price, opened half a point lower, with the given
\* upper and lower wicks.
Candle(preco, up, lo) ==
    [open  |-> RSub(preco, Rat(1, 2)), close |-> preco,
     high  |-> RAdd(preco, up),        low   |-> RSub(RSub(preco, Rat(1, 2)), lo)]

Contexto(preco) ==
    [minima_recente |-> RSub(preco, R(9)), maxima_recente |-> RAdd(preco, R(9))]

Precos == {Rat(49035, 10), R(5012)}
\* both wicks reject, only the upper wick rejects, neither does
Pavios == {<<R(8), R(4)>>, <<R(8), Rat(1, 2)>>, <<Rat(1, 2), Rat(1, 2)>>}
\* a malformed candle: high below low, or a negative price
malformado(candle) ==
    \/ RLt(candle.high, candle.low)
    \/ \E f \in {"open", "high", "low", "close"} : RLt(candle[f], R(0))

\* a candle whose high (5007) lies below its low (5007.5), with a lower wick of 4
CandleMalformado == Candle(R(5012), R(-5), R(4))
Mercados == {[preco_atual |-> p, candle |-> Candle(p, w[1], w[2]), contexto |-> Contexto(p)] :
                p \in Precos, w \in Pavios}
\* one price: the malformed candle, a well-formed one with the same lower wick,
\* and one that rejects nothing
MercadosCandle ==
    {[preco_atual |-> R(5012), candle |-> c, contexto |-> Contexto(R(5012))] :
        c \in {CandleMalformado, Candle(R(5012), R(8), R(4)),
               Candle(R(5012), Rat(1, 2), Rat(1, 2))}}
Direcoes == {None, Some("compra")}
Steps == {None}

\* The scan is a pure function of its arguments: its values on the inputs above
\* are tabulated once, and scan_de reads the table (and computes off the table).
ScanArgs ==
    {<<m.preco_atual, m.candle, m.contexto, dir, janela_atual(agora)[2][1], janela_atual(agora)[3], step>> :
        m \in Mercados \cup MercadosCandle, dir \in Direcoes, agora \in {t \in Agoras : janela_atual(t)[1]}, step \in Steps}

ScanTable == {<<a, scan(a[1], a[2], a[3], a[4], a[5], a[6], a[7])>> : a \in ScanArgs}

scan_de(preco_atual, candle, contexto, direcao_esperada, janela_label, janela_dir, step_dia) ==
    LET a == <<preco_atual, candle, contexto, direcao_esperada, janela_label, janela_dir, step_dia>>
    IN  IF a \in ScanArgs THEN (CHOOSE p \in ScanTable : p[1] = a)[2]
        ELSE scan(preco_atual, candle, contexto, direcao_esperada, janela_label, janela_dir, step_dia)

(***************************************************************************)
(* OperacionalKillZone: the engine's state and what a call does to it.     *)
(***************************************************************************)
VARIABLES
    _day_key,         \* self._day_key: None or <<day>>
    _ops_by_window,   \* self._ops_by_window: dict label -> count
    last,             \* the last call: day key, locals, return value, candle malformed
    cur_day,          \* day key of the last in-session call (None at first)
    got,              \* per label: signals returned since cur_day last changed
    since_reset,      \* per label: signals returned since the engine last reset
    issued,           \* per <<day key, label>>: signals returned, whole run
    resets,           \* per day key: number of resets made for it
    ncalls,           \* calls made so far
    \* two callers on one engine instance
    use_lock,         \* whether each call runs under one lock
    lock,             \* None, or <<t>> when caller t holds the lock
    pc,               \* per caller: where it stands inside analisar_oportunidade
    loc,              \* per caller: the arguments and locals of its call
    \* the pure functions, applied to inputs drawn at the start
    relogio,          \* a time of day; on the clocked engine, the place in Instantes
    janela,           \* None, or <<verificar_horario_permitido, janela_atual>> of relogio
    plan_in,          \* the arguments of build_entry_plan
    plan,             \* None, or <<the EntryPlan returned>>
    dias,             \* the day series given to _atr14_by_date: rows [date, h, l, c]
    atr14,            \* None, or <<the mapping returned>>
    fn_args,          \* the arguments of the other pure functions
    fn_ret            \* None, or <<the value returned for fn_args>>

engine_vars == <<_day_key, _ops_by_window, last, cur_day, got, since_reset,
                 issued, resets, ncalls>>
conc_vars == <<use_lock, lock, pc, loc>>
pure_vars == <<relogio, janela, plan_in, plan, dias, atr14, fn_args, fn_ret>>

EmptyDict == [w \in {} |-> 0]
DictGet(d, k, default) == IF k \in DOMAIN d THEN d[k] ELSE default
\* a write that sets every stored count, not only that of k
DictSetTodos(d, k, v) == [w \in DOMAIN d \cup {k} |-> v]
DictSet(d, k, v) == [w \in DOMAIN d \cup {k} |-> IF w = k THEN v ELSE d[w]]

\* a reset that stores the new day key and keeps the old counts
reset_keeps_counts(day, ops, day_key) == <<Some(day_key), ops>>

\* <<_day_key, _ops_by_window>> after self._reset_if_new_day(day_key)
_reset_if_new_day(day, ops, day_key) ==
    IF day # Some(day_key) THEN <<Some(day_key), EmptyDict>> ELSE <<day, ops>>

\* a quota check that is off by one
quota_off_by_one(used) == used > max_operacoes_por_janela

\* "if used >= max_ops: return None"
quota_esgotada(used) == used >= max_operacoes_por_janela

\* analisar_oportunidade with the reset made before the session test
analisar_reset_primeiro(day, ops, preco_atual, candle, contexto, agora, day_key, direcao_esperada, step_dia) ==
    LET ja == janela_atual(agora)
        st == _reset_if_new_day(day, ops, day_key)
        used == IF ja[1] THEN DictGet(st[2], ja[2][1], 0) ELSE 0
        sinal == IF ja[1]
                 THEN scan_de(preco_atual, candle, contexto, direcao_esperada, ja[2][1], ja[3], step_dia)
                 ELSE None
        base == [day |-> st[1], ops |-> st[2], janela |-> ja[2], used |-> None,
                 reset |-> (st[1] # day), ret |-> None]
    IN  IF ~ja[1] \/ ja[2] = None \/ ja[2] = Some("") THEN base
        ELSE IF quota_esgotada(used) \/ sinal = None THEN [base EXCEPT !.used = Some(used)]
        ELSE [base EXCEPT !.used = Some(used), !.ops = DictSet(st[2], ja[2][1], used + 1),
                          !.ret = sinal]

\* The whole of analisar_oportunidade on the state <<day, ops>>:
\* [day, ops] after the call, the locals janela_label and used (None when the
\* call returned before reading them), whether it reset, and the value returned.
analisar_oportunidade(day, ops, preco_atual, candle, contexto, agora, day_key, direcao_esperada, step_dia) ==
    LET ja == janela_atual(agora)
        st == _reset_if_new_day(day, ops, day_key)
        used == DictGet(st[2], ja[2][1], 0)
        sinal == scan_de(preco_atual, candle, contexto, direcao_esperada, ja[2][1], ja[3], step_dia)
        base == [day |-> day, ops |-> ops, janela |-> ja[2], used |-> None,
                 reset |-> FALSE, ret |-> None]
    IN  IF ~ja[1] THEN base
        ELSE IF ja[2] = None \/ ja[2] = Some("")
             THEN [base EXCEPT !.day = st[1], !.ops = st[2], !.reset = (st[1] # day)]
        ELSE IF quota_esgotada(used)
             THEN [base EXCEPT !.day = st[1], !.ops = st[2], !.reset = (st[1] # day),
                               !.used = Some(used)]
        ELSE IF sinal = None
             THEN [base EXCEPT !.day = st[1], !.ops = st[2], !.reset = (st[1] # day),
                               !.used = Some(used)]
        ELSE [base EXCEPT !.day = st[1], !.reset = (st[1] # day), !.used = Some(used),
                          !.ops = DictSet(st[2], ja[2][1], used + 1),
                          !.ret = sinal]


NThreads == 2
Threads == 1..NThreads
NoLocals == [m |-> None, janela |-> None, janela_dir |-> None, day_key |-> None, used |-> None]

InitConc ==
    /\ lock = None
    /\ pc = [t \in Threads |-> "idle"]
    /\ loc = [t \in Threads |-> NoLocals]

\* the engine as __init__ leaves it, and empty histories
InitEngine ==
    /\ _day_key = None
    /\ _ops_by_window = EmptyDict
    /\ last = [day_key |-> 0, out |-> [day |-> None, ops |-> EmptyDict,
               janela |-> None, used |-> None, reset |-> FALSE, ret |-> None],
               cand |-> None, prior |-> 0, malformado |-> FALSE]
    /\ cur_day = None
    /\ got = [w \in Labels |-> 0]
    /\ since_reset = [w \in Labels |-> 0]
    /\ issued = [k \in DayKeys \X Labels |-> 0]
    /\ resets = [d \in DayKeys |-> 0]
    /\ ncalls = 0

\* no pure function under study
InitPure ==
    /\ relogio = 0
    /\ janela = None
    /\ plan_in = None
    /\ plan = None
    /\ dias = <<>>
    /\ atr14 = None
    /\ fn_args = None
    /\ fn_ret = None

Init ==
    /\ InitEngine
    /\ use_lock = FALSE
    /\ InitConc
    /\ InitPure

\* One call by the single caller, its market drawn from mercados. The history variables are kept from what the
\* caller sees (inputs and return value) and from the reset the call made.
CallAt(mercados, agoras, day_keys) ==
    /\ ncalls < MaxCalls
    /\ \E m \in mercados, agora \in agoras, day_key \in day_keys, dir \in Direcoes, step \in Steps :
      \E out \in {analisar_oportunidade(_day_key, _ops_by_window, m.preco_atual, m.candle,
                                         m.contexto, agora, day_key, dir, step)},
         ja \in {janela_atual(agora)} :
        LET w == ja[2][1]
            newday == ja[1] /\ cur_day # Some(day_key)
            got0 == IF newday THEN [x \in Labels |-> 0] ELSE got
            sr0 == IF out.reset THEN [x \in Labels |-> 0] ELSE since_reset
            n == IF out.ret # None THEN 1 ELSE 0
        IN  /\ _day_key' = out.day
            /\ _ops_by_window' = out.ops
            /\ cur_day' = IF ja[1] THEN Some(day_key) ELSE cur_day
            /\ got' = IF ja[1] THEN [got0 EXCEPT ![w] = @ + n] ELSE got
            /\ since_reset' = IF ja[1] THEN [sr0 EXCEPT ![w] = @ + n] ELSE since_reset
            /\ issued' = IF ja[1] THEN [issued EXCEPT ![<<day_key, w>>] = @ + n] ELSE issued
            /\ resets' = IF out.reset THEN [resets EXCEPT ![day_key] = @ + 1] ELSE resets
            /\ last' = [day_key |-> day_key, out |-> out,
                        cand |-> IF ja[1] THEN scan_de(m.preco_atual, m.candle, m.contexto, dir,
                                                      w, ja[3], step)
                                 ELSE None,
                        prior |-> IF ja[1] THEN got0[w] ELSE 0,
                        malformado |-> malformado(m.candle)]
            /\ ncalls' = ncalls + 1
    /\ UNCHANGED <<conc_vars, pure_vars>>

\* a call at any of the times, with any of the day keys
CallOn(mercados) == CallAt(mercados, Agoras, DayKeys)

Call == CallOn(Mercados)

Next == Call

vars == <<engine_vars, conc_vars, pure_vars>>

Spec == Init /\ [][Next]_vars

\* the same engine, called with candles of which one is malformed
CallCandle == CallOn(MercadosCandle)

NextCandle == CallCandle

SpecCandle == Init /\ [][NextCandle]_vars

(***************************************************************************)
(* The engine on a clock: one night, from 22:00 of day 1 to 03:30 of day   *)
(* 2. A call is made at the time the clock shows, its day key the calendar *)
(* date the clock shows (lines 256-258: agora and day_key default to the   *)
(* time and the date of now); the clock only moves forward. relogio is the *)
(* position of the clock in Instantes.                                     *)
(***************************************************************************)
\* <<calendar date, time of day>>: before the session, in the window
\* 23:20-00:30 before midnight, in the same window after midnight, and in the
\* window 03:00-04:00
Instantes == << <<1, HM(22, 0)>>, <<1, HM(23, 30)>>, <<2, HM(0, 10)>>, <<2, HM(3, 30)>> >>

InitRelogio ==
    /\ InitEngine
    /\ use_lock = FALSE
    /\ InitConc
    /\ relogio = 1
    /\ janela = None
    /\ plan_in = None
    /\ plan = None
    /\ dias = <<>>
    /\ atr14 = None
    /\ fn_args = None
    /\ fn_ret = None

\* time passes
Avancar ==
    /\ relogio < Len(Instantes)
    /\ relogio' = relogio + 1
    /\ UNCHANGED <<engine_vars, conc_vars, janela, plan_in, plan, dias, atr14, fn_args, fn_ret>>

\* a call now
CallAgora == CallAt(Mercados, {Instantes[relogio][2]}, {Instantes[relogio][1]})

NextRelogio == Avancar \/ CallAgora

SpecRelogio == InitRelogio /\ [][NextRelogio]_vars


(***************************************************************************)
(* Two callers on one engine instance. Each call is the same code, taken   *)
(* one shared-state access at a time: the test and the two assignments of  *)
(* _reset_if_new_day (lines 222, 223, 224), the read of the window's count *)
(* with the quota check (lines 272-274) and the write of used + 1 with the *)
(* return (lines 317-319). With use_lock a caller takes the lock when it   *)
(* enters and gives it back when it returns.                               *)
(***************************************************************************)
MaxConcCalls == 4

ConcDayKeys == {CHOOSE d \in DayKeys : \A e \in DayKeys : d <= e}
\* one price; a candle that rejects and one that does not
ConcMercados == {m \in Mercados : m.preco_atual = R(5012) /\ m.candle.low # Rat(10015, 2)}
ConcAgoras == {HM(22, 0), HM(23, 30)}

Enter(t) == IF use_lock THEN lock = None /\ lock' = Some(t) ELSE lock' = lock
Leave(t) == IF use_lock THEN lock' = None ELSE lock' = lock
\* what no step of a call touches
Kept == UNCHANGED <<last, cur_day, got, since_reset, use_lock, pure_vars>>

\* lines 257-264: the arguments, janela_atual, "if not permitido: return None"
T_Begin(t) ==
    /\ pc[t] = "idle"
    /\ ncalls < MaxConcCalls
    /\ ncalls' = ncalls + 1
    /\ \E m \in ConcMercados, agora \in ConcAgoras, day_key \in ConcDayKeys :
         \E ja \in {janela_atual(agora)} :
            IF ~ja[1]
            THEN /\ (use_lock => lock = None)
                 /\ UNCHANGED <<lock, pc, loc>>
            ELSE /\ Enter(t)
                 /\ pc' = [pc EXCEPT ![t] = "reset_test"]
                 /\ loc' = [loc EXCEPT ![t] = [m |-> Some(m), janela |-> ja[2], janela_dir |-> ja[3],
                                               day_key |-> Some(day_key), used |-> None]]
    /\ UNCHANGED <<_day_key, _ops_by_window, issued, resets>>
    /\ Kept

\* line 222: if self._day_key != day_key
T_ResetTest(t) ==
    /\ pc[t] = "reset_test"
    /\ pc' = [pc EXCEPT ![t] = IF _day_key # loc[t].day_key THEN "set_day" ELSE "read"]
    /\ UNCHANGED <<_day_key, _ops_by_window, issued, resets, ncalls, lock, loc>>
    /\ Kept

\* line 223: self._day_key = day_key
T_SetDay(t) ==
    /\ pc[t] = "set_day"
    /\ _day_key' = loc[t].day_key
    /\ pc' = [pc EXCEPT ![t] = "clear"]
    /\ UNCHANGED <<_ops_by_window, issued, resets, ncalls, lock, loc>>
    /\ Kept

\* line 224: self._ops_by_window = {}
T_Clear(t) ==
    /\ pc[t] = "clear"
    /\ _ops_by_window' = EmptyDict
    /\ resets' = [resets EXCEPT ![loc[t].day_key[1]] = @ + 1]
    /\ pc' = [pc EXCEPT ![t] = "read"]
    /\ UNCHANGED <<_day_key, issued, ncalls, lock, loc>>
    /\ Kept

\* lines 271-274: used = self._ops_by_window.get(janela_label, 0); the quota check
T_Read(t) ==
    /\ pc[t] = "read"
    /\ \E used \in {DictGet(_ops_by_window, loc[t].janela[1], 0)} :
         IF quota_esgotada(used)
         THEN /\ pc' = [pc EXCEPT ![t] = "idle"]
              /\ loc' = [loc EXCEPT ![t] = NoLocals]
              /\ Leave(t)
         ELSE /\ pc' = [pc EXCEPT ![t] = "write"]
              /\ loc' = [loc EXCEPT ![t].used = Some(used)]
              /\ lock' = lock
    /\ UNCHANGED <<_day_key, _ops_by_window, issued, resets, ncalls>>
    /\ Kept

\* lines 277-331: the scan; on a signal self._ops_by_window[janela_label] = used + 1
T_Write(t) ==
    /\ pc[t] = "write"
    /\ \E sinal \in {scan_de(loc[t].m[1].preco_atual, loc[t].m[1].candle, loc[t].m[1].contexto,
                             None, loc[t].janela[1], loc[t].janela_dir, None)} :
         IF sinal = None
         THEN UNCHANGED <<_ops_by_window, issued>>
         ELSE /\ _ops_by_window' = DictSet(_ops_by_window, loc[t].janela[1], loc[t].used[1] + 1)
              /\ issued' = [issued EXCEPT ![<<loc[t].day_key[1], loc[t].janela[1]>>] = @ + 1]
    /\ pc' = [pc EXCEPT ![t] = "idle"]
    /\ loc' = [loc EXCEPT ![t] = NoLocals]
    /\ Leave(t)
    /\ UNCHANGED <<_day_key, resets, ncalls>>
    /\ Kept

InitTwoCallers ==
    /\ InitEngine
    /\ use_lock \in BOOLEAN
    /\ InitConc
    /\ InitPure

NextTwoCallers ==
    \E t \in Threads :
        \/ T_Begin(t)
        \/ T_ResetTest(t)
        \/ T_SetDay(t)
        \/ T_Clear(t)
        \/ T_Read(t)
        \/ T_Write(t)

SpecTwoCallers == InitTwoCallers /\ [][NextTwoCallers]_vars

(***************************************************************************)
(* The window functions on every second of the day.                        *)
(***************************************************************************)
Relogios == 0..(HM(24, 0) - 1)

InitWindows ==
    /\ InitEngine
    /\ use_lock = FALSE
    /\ InitConc
    /\ relogio \in Relogios
    /\ janela = None
    /\ plan_in = None
    /\ plan = None
    /\ dias = <<>>
    /\ atr14 = None
    /\ fn_args = None
    /\ fn_ret = None

ConsultarJanela ==
    /\ janela = None
    /\ janela' = Some([permitido |-> verificar_horario_permitido(relogio),
                       atual     |-> janela_atual(relogio)])
    /\ UNCHANGED <<engine_vars, conc_vars, relogio, plan_in, plan, dias, atr14, fn_args, fn_ret>>

NextWindows == ConsultarJanela

SpecWindows == InitWindows /\ [][NextWindows]_vars

(***************************************************************************)
(* Quota of the single-caller engine                                       *)
(***************************************************************************)
InSession == last.out.janela # None

\* C1: quota per window per day. For an in-session call, with prior the number
\* of signals already returned for its window since the caller's day key last
\* changed: while prior is below max_operacoes_por_janela (= 2) a call whose
\* inputs qualify returns a signal (the first two calls do); once prior has
\* reached 2 every call returns None whatever its candle and price; a call with
\* a different day key starts from prior = 0 and so returns a signal again.
C1_QuotaPerWindowPerDay ==
    InSession =>
        /\ (last.prior < max_operacoes_por_janela /\ last.cand # None) => last.out.ret # None
        /\ last.prior >= max_operacoes_por_janela => last.out.ret = None
        /\ last.prior <= max_operacoes_por_janela

\* the third qualifying call of a day in one window is refused
C1_Witness ==
    /\ InSession
    /\ last.prior = max_operacoes_por_janela
    /\ last.cand # None
    /\ last.out.ret = None

\* C2: every count stored in _ops_by_window is at least 1 and at most
\* max_operacoes_por_janela and equals the number of signals returned for that
\* window label since the last reset; a label with no stored count has had none.
C2_CountsWithinQuota ==
    \A w \in Labels :
        IF w \in DOMAIN _ops_by_window
        THEN /\ 1 <= _ops_by_window[w]
             /\ _ops_by_window[w] <= max_operacoes_por_janela
             /\ _ops_by_window[w] = since_reset[w]
        ELSE since_reset[w] = 0

\* a count of 1 stored after a reset that cleared a full quota of the window
C2_Witness ==
    \E w \in DOMAIN _ops_by_window, d \in DayKeys :
        /\ _ops_by_window[w] = 1
        /\ _day_key # Some(d)
        /\ issued[<<d, w>>] = max_operacoes_por_janela

\* C3: the counts are reset exactly once per distinct day key, also when a day
\* key comes back after another one, so that the signals issued for one
\* (day key, window label) over the whole run never exceed the quota.
C3_ResetOncePerDayKey ==
    /\ \A d \in DayKeys : resets[d] <= 1
    /\ \A k \in DayKeys \X Labels : issued[k] <= max_operacoes_por_janela


(***************************************************************************)
(* Two callers                                                             *)
(***************************************************************************)
\* C6: the count is read (quota check) and written (increment) in separate
\* steps. When every call runs under one lock, no (day key, window label) gets
\* more than max_operacoes_por_janela signals and every signal is counted;
\* without the lock an interleaving issues more than the quota and loses an
\* increment (C6_Witness).
C6_LockedCallsKeepQuota ==
    use_lock =>
        \A d \in DayKeys, w \in Labels :
            /\ issued[<<d, w>>] <= max_operacoes_por_janela
            /\ (_day_key = Some(d) /\ \A t \in Threads : pc[t] \notin {"set_day", "clear"})
                  => DictGet(_ops_by_window, w, 0) = issued[<<d, w>>]

\* no lock, the counts cleared once only: three signals for one window of one
\* day while the stored count is 2
C6_Witness ==
    /\ ~use_lock
    /\ \E d \in DayKeys, w \in Labels :
         /\ resets[d] = 1
         /\ issued[<<d, w>>] > max_operacoes_por_janela
         /\ DictGet(_ops_by_window, w, 0) < issued[<<d, w>>]
         /\ DictGet(_ops_by_window, w, 0) = max_operacoes_por_janela


(***************************************************************************)
(* Session and windows                                                     *)
(***************************************************************************)
\* C4: verificar_horario_permitido(t) is true exactly when t lies in the
\* session with both endpoints included and midnight wraparound honoured
\* (start > end: t >= start or t <= end; otherwise start <= t <= end); for the
\* session 23:00-06:00 it is true at 23:30, 00:00 and 05:59, false at 12:00
\* and 07:00.
C4_SessionWraparound ==
    janela # None =>
        /\ janela[1].permitido =
              (IF kill_zone_inicio > kill_zone_fim
               THEN relogio >= kill_zone_inicio \/ relogio <= kill_zone_fim
               ELSE kill_zone_inicio <= relogio /\ relogio <= kill_zone_fim)
        /\ relogio \in {HM(23, 30), HM(0, 0), HM(5, 59), HM(23, 0), HM(6, 0)} => janela[1].permitido
        /\ relogio \in {HM(12, 0), HM(7, 0), HM(6, 0) + 1, HM(23, 0) - 1} => ~janela[1].permitido

\* the closing instant 06:00:00 of the session, after midnight, is inside
C4_Witness ==
    /\ janela # None
    /\ relogio = kill_zone_fim
    /\ janela[1].permitido

\* what janela_atual is to return at t, written out window by window
JanelaEsperada(t) ==
    IF ~(t >= HM(23, 0) \/ t <= HM(6, 0)) THEN <<FALSE, None, None>>
    ELSE IF t >= HM(23, 20) \/ t <= HM(0, 30) THEN <<TRUE, Some("23:20-00:30"), Some("VENDA")>>
    ELSE IF HM(0, 30) <= t /\ t <= HM(1, 30) THEN <<TRUE, Some("00:30-01:30"), Some("AMBAS")>>
    ELSE IF HM(3, 0) <= t /\ t <= HM(4, 0) THEN <<TRUE, Some("03:00-04:00"), Some("COMPRA")>>
    ELSE IF HM(5, 0) <= t /\ t <= HM(6, 0) THEN <<TRUE, Some("05:00-06:00"), Some("VENDA")>>
    ELSE <<TRUE, Some("OBSERVACAO"), Some("AMBAS")>>

\* C5: janela_atual(t) is (False, None, None) outside the session; inside it is
\* the label 'HH:MM-HH:MM' and direction of the first priority window, in
\* declaration order, that contains t (at 00:30 the window 23:20-00:30, VENDA),
\* and ('OBSERVACAO', 'AMBAS') when no priority window contains t.
C5_FirstMatchingWindow ==
    janela # None => janela[1].atual = JanelaEsperada(relogio)

\* 00:30 ends the first window and starts the second: the first is returned
C5_Witness ==
    /\ janela # None
    /\ relogio = HM(0, 30)
    /\ janela[1].atual = <<TRUE, Some("23:20-00:30"), Some("VENDA")>>

(***************************************************************************)
(* xau_entry_heuristics.py: build_entry_plan                               *)
(*                                                                         *)
(* A history row is a record with the columns of asia_open_daily that the  *)
(* function reads: trade_date, open, h1_high, h1_low, h1_close, atr14      *)
(* (each price an optional float). The plan is the EntryPlan record; notes *)
(* are the fixed text of each message (the numbers formatted into two of   *)
(* them are left out); stats = {} is the function with the empty domain.   *)
(***************************************************************************)
\* x > 1/k for a positive integer k (k * numerator is never formed)
RGtInv(x, k) == x[1] > 0 /\ (x[2] \div x[1]) < k

\* x + 1e-9 < y
LtEps9(x, y) == RGtInv(RSub(y, x), 1000000000)

SeqMap(s, F(_)) == [i \in 1..Len(s) |-> F(s[i])]

RECURSIVE RSum(_)
RSum(xs) == IF xs = <<>> THEN R(0) ELSE RAdd(Head(xs), RSum(Tail(xs)))

\* the k-th element of sorted(xs), k from 1
KthSmallest(xs, k) ==
    CHOOSE x \in {xs[i] : i \in 1..Len(xs)} :
        /\ Cardinality({i \in 1..Len(xs) : RLt(xs[i], x)}) < k
        /\ Cardinality({i \in 1..Len(xs) : RLe(xs[i], x)}) >= k

\* statistics.median of a non-empty list
median(xs) ==
    LET n == Len(xs)
    IN  IF n % 2 = 1 THEN KthSmallest(xs, (n + 1) \div 2)
        ELSE RDiv(RAdd(KthSmallest(xs, n \div 2), KthSmallest(xs, n \div 2 + 1)), R(2))

\* "median(xs) if xs else None"
median_or_none(xs) == IF xs = <<>> THEN None ELSE median(xs)

_nearest_round(price, step) ==
    IF RLe(step, R(0)) THEN price
    ELSE RMul(R(PyRound(RDiv(price, step))), step)

_round_to_step(price, step, direction) ==
    IF RLe(step, R(0)) THEN price
    ELSE LET k == RDiv(price, step)
         IN  IF direction = "down"
             THEN RMul(R(PyInt(k)), step)
             ELSE RMul(R(PyInt(k) + (IF R(PyInt(k)) = k THEN 0 ELSE 1)), step)

\* the plan returned for an empty history that also fills in the stats
plano_com_stats(reference_price) ==
    [direction |-> "NEUTRAL", entry |-> reference_price, stop |-> reference_price,
     take_profit |-> reference_price, rr |-> R(0), lots |-> None,
     risk_amount |-> None, stop_distance |-> R(0),
     notes |-> <<"Sem dados no banco para calcular padroes.">>,
     stats |-> [history_rows |-> 0]]

\* lines 57-69: the plan returned for an empty history
plano_sem_historico(reference_price) ==
    [direction |-> "NEUTRAL", entry |-> reference_price, stop |-> reference_price,
     take_profit |-> reference_price, rr |-> R(0), lots |-> None,
     risk_amount |-> None, stop_distance |-> R(0),
     notes |-> <<"Sem dados no banco para calcular padroes.">>,
     stats |-> [k \in {} |-> None]]

\* lines 72-79
has_h1(r) ==
    r.open # None /\ r.h1_high # None /\ r.h1_low # None /\ r.h1_close # None

rows_h1_of(history) == SelectSeq(history, has_h1)

\* lines 92-101, per row
up_move(r) == RSub(r.h1_high, r.open)
down_move(r) == RSub(r.open, r.h1_low)
has_atr(r) == r.atr14 # None /\ RGt(r.atr14, R(0))
up_move_atr(r) == RDiv(up_move(r), r.atr14)
down_move_atr(r) == RDiv(down_move(r), r.atr14)
close_dir(r) == IF RGt(r.h1_close, r.open) THEN 1 ELSE -1

\* lines 109-113: the loop over history, in list order
\* current_atr after the rows i.. : each row with a positive atr14 overwrites
\* it, so the last such row gives the value
atr_loop(history, i, current_atr) ==
    Let({j \in i..Len(history) : has_atr(history[j])}, LAMBDA com_atr :
        IF com_atr = {} THEN current_atr
        ELSE history[CHOOSE j \in com_atr : \A k \in com_atr : k <= j].atr14)

\* lines 109-121
current_atr_of(history, rows_h1, med_up, med_down) ==
    LET current_atr == atr_loop(history, 1, None)
    IN  IF current_atr = None /\ rows_h1 # <<>>
        THEN IF med_up # None /\ med_down # None THEN RMul(RMax(med_up, med_down), R(2))
             ELSE IF med_up # None THEN RMul(med_up, R(2))
             ELSE IF med_down # None THEN RMul(med_down, R(2))
             ELSE current_atr
        ELSE current_atr

\* lines 127-133
is_near(r, round_step, round_proximity) ==
    RLe(RAbs(RSub(r.open, _nearest_round(r.open, round_step))), round_proximity)

near_rows_of(rows_h1, round_step, round_proximity) ==
    SelectSeq(rows_h1, LAMBDA r : is_near(r, round_step, round_proximity))

\* lines 135-140
long_winrate_of(near_rows) ==
    IF near_rows = <<>> THEN None
    ELSE Rat(Len(SelectSeq(near_rows, LAMBDA r : RGt(r.h1_close, r.open))), Len(near_rows))

\* sum(xs) of integers, the list halved at each step
RECURSIVE ISum(_)
ISum(xs) ==
    IF xs = <<>> THEN 0
    ELSE IF Len(xs) = 1 THEN xs[1]
    ELSE ISum(SubSeq(xs, 1, Len(xs) \div 2)) + ISum(SubSeq(xs, Len(xs) \div 2 + 1, Len(xs)))

\* a decision that trusts the cohort's win rate whatever the cohort's size
direcao_sem_minimo(long_winrate, near_rows, rows_h1) ==
    IF long_winrate # None
    THEN IF RGe(long_winrate, Rat(55, 100)) THEN "LONG"
         ELSE IF RLe(long_winrate, Rat(45, 100)) THEN "SHORT"
         ELSE "NEUTRAL"
    ELSE IF rows_h1 # <<>>
    THEN LET overall == Rat(ISum(SeqMap(rows_h1, close_dir)), Len(rows_h1))
         IN  IF RGe(overall, Rat(5, 100)) THEN "LONG"
             ELSE IF RLe(overall, Rat(-5, 100)) THEN "SHORT"
             ELSE "NEUTRAL"
    ELSE "NEUTRAL"

\* lines 142-154
direction_of(long_winrate, near_rows, rows_h1) ==
    IF long_winrate # None /\ Len(near_rows) >= 80
    THEN IF RGe(long_winrate, Rat(55, 100)) THEN "LONG"
         ELSE IF RLe(long_winrate, Rat(45, 100)) THEN "SHORT"
         ELSE "NEUTRAL"
    ELSE IF rows_h1 # <<>>
    THEN LET overall == Rat(ISum(SeqMap(rows_h1, close_dir)), Len(rows_h1))
         IN  IF RGe(overall, Rat(5, 100)) THEN "LONG"
             ELSE IF RLe(overall, Rat(-5, 100)) THEN "SHORT"
             ELSE "NEUTRAL"
    ELSE "NEUTRAL"

\* lines 85-133 and 219-232: the stats mapping of a non-empty history, and
\* the direction of lines 142-154
plan_stats(history, reference_price, round_step, round_proximity) ==
    Let(rows_h1_of(history), LAMBDA rows_h1 :
    Let([up       |-> median_or_none(SeqMap(rows_h1, up_move)),
         down     |-> median_or_none(SeqMap(rows_h1, down_move)),
         up_atr   |-> median_or_none(SeqMap(SelectSeq(rows_h1, has_atr), up_move_atr)),
         down_atr |-> median_or_none(SeqMap(SelectSeq(rows_h1, has_atr), down_move_atr))],
        LAMBDA med :
    Let(near_rows_of(rows_h1, round_step, round_proximity), LAMBDA near_rows :
    Let(long_winrate_of(near_rows), LAMBDA long_winrate :
    Let(_nearest_round(reference_price, round_step), LAMBDA nearest :
        <<[history_rows            |-> Len(history),
           h1_rows                 |-> Len(rows_h1),
           near_round_rows         |-> Len(near_rows),
           near_round_long_winrate |-> long_winrate,
           median_up_h1            |-> med.up,
           median_down_h1          |-> med.down,
           median_up_h1_atr        |-> med.up_atr,
           median_down_h1_atr      |-> med.down_atr,
           current_atr14           |-> current_atr_of(history, rows_h1, med.up, med.down),
           reference_price         |-> reference_price,
           nearest_round           |-> nearest,
           reference_near_round    |->
               RLe(RAbs(RSub(reference_price, nearest)), round_proximity)],
          direction_of(long_winrate, near_rows, rows_h1)>>)))))

\* lines 162-177: <<base_stop, the note appended, if any>>
base_stop_of(direction, stats, round_step) ==
    LET med_up == stats.median_up_h1
        med_down == stats.median_down_h1
        med_up_atr == stats.median_up_h1_atr
        med_down_atr == stats.median_down_h1_atr
    IN  IF stats.current_atr14 # None /\ med_up_atr # None /\ med_down_atr # None
        THEN <<RMul(IF direction = "LONG" THEN med_down_atr
                    ELSE IF direction = "SHORT" THEN med_up_atr
                    ELSE RMax(med_up_atr, med_down_atr),
                    stats.current_atr14),
               <<"Stop baseado em mediana do movimento adverso normalizado por ATR14.">> >>
        ELSE IF med_up # None /\ med_down # None
        THEN <<IF direction = "LONG" THEN med_down
               ELSE IF direction = "SHORT" THEN med_up
               ELSE RMax(med_up, med_down), <<>> >>
        ELSE IF med_up # None THEN <<med_up, <<>> >>
        ELSE IF med_down # None THEN <<med_down, <<>> >>
        ELSE <<IF RGt(round_step, R(0)) THEN RMax(R(1), RMul(round_step, Rat(1, 10))) ELSE R(1),
               <<"Stop default (sem H1 suficiente).">> >>

\* a re-verification that reports min_rr and keeps the snapped target
rr_sem_desfazer(direction, entry, stop, take_profit, stop_distance, min_rr) ==
    LET effective_rr == IF RGt(RAbs(RSub(entry, stop)), R(0))
                        THEN RDiv(RAbs(RSub(take_profit, entry)), RAbs(RSub(entry, stop)))
                        ELSE R(0)
    IN  IF LtEps9(effective_rr, min_rr) THEN <<take_profit, min_rr>>
        ELSE <<take_profit, effective_rr>>

\* lines 202-209: <<take_profit, effective_rr>> after the re-verification
reverificar_rr(direction, entry, stop, take_profit, stop_distance, min_rr) ==
    LET effective_rr == IF RGt(RAbs(RSub(entry, stop)), R(0))
                        THEN RDiv(RAbs(RSub(take_profit, entry)), RAbs(RSub(entry, stop)))
                        ELSE R(0)
    IN  IF LtEps9(effective_rr, min_rr)
        THEN <<IF direction = "LONG" THEN RAdd(entry, RMul(stop_distance, min_rr))
               ELSE IF direction = "SHORT" THEN RSub(entry, RMul(stop_distance, min_rr))
               ELSE take_profit,
               min_rr>>
        ELSE <<take_profit, effective_rr>>

\* the prices of a plan whose stop distance has no floor of 0.5
plan_prices_sem_piso(stats, direction, reference_price, round_step, min_rr) ==
    LET entry == IF stats.reference_near_round THEN stats.nearest_round ELSE reference_price
        stop_distance == base_stop_of(direction, stats, round_step)[1]
        stop == IF direction = "SHORT" THEN RAdd(entry, stop_distance)
                ELSE RSub(entry, stop_distance)
        tp0 == IF direction = "SHORT" THEN RSub(entry, RMul(stop_distance, min_rr))
               ELSE RAdd(entry, RMul(stop_distance, min_rr))
        rv == reverificar_rr(direction, entry, stop, tp0, stop_distance, min_rr)
    IN  [entry |-> entry, stop |-> stop, take_profit |-> rv[1], rr |-> rv[2],
         stop_distance |-> stop_distance]

\* lines 157-209: entry, stop distance, stop, target and RR
plan_prices(stats, direction, reference_price, round_step, min_rr) ==
    LET entry == IF stats.reference_near_round THEN stats.nearest_round ELSE reference_price
        stop_distance == RMax(base_stop_of(direction, stats, round_step)[1], Rat(1, 2))
        stop == IF direction = "SHORT" THEN RAdd(entry, stop_distance)
                ELSE RSub(entry, stop_distance)
        tp0 == IF direction = "SHORT" THEN RSub(entry, RMul(stop_distance, min_rr))
               ELSE RAdd(entry, RMul(stop_distance, min_rr))
        tp1 == IF RGt(round_step, R(0)) /\ direction = "LONG"
               THEN _round_to_step(tp0, round_step, "up")
               ELSE IF RGt(round_step, R(0)) /\ direction = "SHORT"
               THEN _round_to_step(tp0, round_step, "down")
               ELSE tp0
        rv == reverificar_rr(direction, entry, stop, tp1, stop_distance, min_rr)
    IN  [entry |-> entry, stop |-> stop, take_profit |-> rv[1], rr |-> rv[2],
         stop_distance |-> stop_distance]

\* lines 80-82, 158-159, 167, 177, 234-240: the notes, in order
plan_notes(stats, direction, round_step) ==
    (IF stats.h1_rows < 50
     THEN <<"Poucos registros com H1 (h1_high/h1_low/h1_close). Melhor importar CSV com colunas H1.">>
     ELSE <<>>)
    \o (IF RGt(round_step, R(0)) /\ stats.reference_near_round
        THEN <<"Entrada ancorada em numero redondo">> ELSE <<>>)
    \o base_stop_of(direction, stats, round_step)[2]
    \o (IF direction = "NEUTRAL"
        THEN <<"Vies neutro (sem sinal forte). Use como checklist, nao como gatilho unico.">>
        ELSE <<"Plano gerado por heuristica com base no historico importado.">>)
    \o (IF stats.current_atr14 # None /\ RGt(stats.current_atr14, R(0))
        THEN <<"Contexto ATR14: stop_distance em ATR">> ELSE <<>>)

\* lines 211-217: <<lots, risk_amount>>
plan_lots(stop_distance, account_balance, risk_percent, contract_size) ==
    IF account_balance # None /\ risk_percent # None
    THEN LET risk_amount == RDiv(RMul(account_balance, risk_percent), R(100))
             denom == RMul(stop_distance, contract_size)
         IN  <<IF RGt(denom, R(0)) THEN RDiv(risk_amount, denom) ELSE None, risk_amount>>
    ELSE <<None, None>>

build_entry_plan(history, reference_price, round_step, round_proximity, min_rr, account_balance, risk_percent, contract_size) ==
    IF history = <<>> THEN plano_sem_historico(reference_price)
    ELSE
    Let(plan_stats(history, reference_price, round_step, round_proximity), LAMBDA sd :
    Let(plan_prices(sd[1], sd[2], reference_price, round_step, min_rr), LAMBDA p :
    Let(plan_lots(p.stop_distance, account_balance, risk_percent, contract_size), LAMBDA lr :
        [direction     |-> sd[2],
         entry         |-> p.entry,
         stop          |-> p.stop,
         take_profit   |-> p.take_profit,
         rr            |-> p.rr,
         lots          |-> lr[1],
         risk_amount   |-> lr[2],
         stop_distance |-> p.stop_distance,
         notes         |-> plan_notes(sd[1], sd[2], round_step),
         stats         |-> sd[1]])))

(***************************************************************************)
(* build_entry_plan on bounded inputs: every list of up to MaxRows rows    *)
(* with distinct trade dates 1..n in any order.                            *)
(***************************************************************************)
MaxRows == 3

\* the columns of a row but its date: a rising H1 with ATR 10, a falling H1
\* with ATR 20, a row without H1 columns, a quiet rising H1 without ATR
RowKinds ==
    { [open |-> R(2000), h1_high |-> R(2006), h1_low |-> R(1997), h1_close |-> R(2004), atr14 |-> R(10)],
      [open |-> R(2001), h1_high |-> R(2003), h1_low |-> R(1993), h1_close |-> R(1995), atr14 |-> R(20)],
      [open |-> R(2000), h1_high |-> None, h1_low |-> None, h1_close |-> None, atr14 |-> None],
      [open |-> R(2004), h1_high |-> R(2005), h1_low |-> R(2003), h1_close |-> R(2005), atr14 |-> None] }

Row(k, d) ==
    [trade_date |-> d, open |-> k.open, h1_high |-> k.h1_high, h1_low |-> k.h1_low,
     h1_close |-> k.h1_close, atr14 |-> k.atr14]

Histories ==
    {<<>>} \cup UNION { { [i \in 1..n |-> Row(ks[i], p[i])] :
                            ks \in [1..n -> RowKinds], p \in Permutations(1..n) } :
                        n \in 1..MaxRows }

ReferencePrices == {Rat(4001, 2), R(2005), R(3)}
RoundSteps == {R(10), R(0)}
Accounts == {<<None, None>>, <<R(10000), R(1)>>}

PlanInputs ==
    { [history |-> h, reference_price |-> ref, round_step |-> st,
       round_proximity |-> Rat(3, 2), min_rr |-> R(2),
       account_balance |-> ac[1], risk_percent |-> ac[2], contract_size |-> R(100)] :
      h \in Histories, ref \in ReferencePrices, st \in RoundSteps, ac \in Accounts }

build_entry_plan_de(in) ==
    build_entry_plan(in.history, in.reference_price, in.round_step, in.round_proximity,
                     in.min_rr, in.account_balance, in.risk_percent, in.contract_size)

InitPlan ==
    /\ InitEngine
    /\ use_lock = FALSE
    /\ InitConc
    /\ relogio = 0
    /\ janela = None
    /\ plan_in \in PlanInputs
    /\ plan = None
    /\ dias = <<>>
    /\ atr14 = None
    /\ fn_args = None
    /\ fn_ret = None

BuildEntryPlan ==
    /\ plan = None
    /\ plan' = Some(build_entry_plan_de(plan_in))
    /\ UNCHANGED <<engine_vars, conc_vars, relogio, janela, plan_in, dias, atr14, fn_args, fn_ret>>

NextPlan == BuildEntryPlan

SpecPlan == InitPlan /\ [][NextPlan]_vars

(***************************************************************************)
(* Entry plan                                                              *)
(***************************************************************************)
\* C7: for a non-empty history and min_rr = 2.0 the returned plan has
\* rr >= 2.0 - 1e-6 and rr = |take_profit - entry| / |entry - stop| of the
\* returned prices, whatever the direction and whether or not the target was
\* snapped to a round number.
C7_PlanKeepsMinRR ==
    (plan # None /\ plan_in.history # <<>> /\ plan_in.min_rr = R(2)) =>
        /\ plan[1].direction \in {"LONG", "SHORT", "NEUTRAL"}
        /\ ~RGtInv(RSub(R(2), plan[1].rr), 1000000)
        /\ plan[1].entry # plan[1].stop
        /\ plan[1].rr = RDiv(RAbs(RSub(plan[1].take_profit, plan[1].entry)),
                             RAbs(RSub(plan[1].entry, plan[1].stop)))

\* a LONG plan whose target was moved up to a multiple of the step
C7_Witness ==
    /\ plan # None
    /\ plan_in.history # <<>>
    /\ plan_in.min_rr = R(2)
    /\ plan[1].direction = "LONG"
    /\ RGt(plan_in.round_step, R(0))
    /\ plan[1].take_profit #
          RAdd(plan[1].entry, RMul(plan[1].stop_distance, plan_in.min_rr))
    /\ RGt(plan[1].rr, R(2))

\* C8: with an empty history the plan is NEUTRAL, entry = stop = take_profit =
\* reference_price, rr = 0.0, stop_distance = 0, lots and risk_amount absent,
\* notes non-empty and stats the empty mapping, whatever the other arguments.
C8_EmptyHistoryPlan ==
    (plan # None /\ plan_in.history = <<>>) =>
        /\ plan[1].direction = "NEUTRAL"
        /\ plan[1].entry = plan_in.reference_price
        /\ plan[1].stop = plan_in.reference_price
        /\ plan[1].take_profit = plan_in.reference_price
        /\ plan[1].rr = R(0)
        /\ plan[1].stop_distance = R(0)
        /\ plan[1].lots = None
        /\ plan[1].risk_amount = None
        /\ plan[1].notes # <<>>
        /\ DOMAIN plan[1].stats = {}

\* an empty history with a balance and a risk percentage supplied
C8_Witness ==
    /\ plan # None
    /\ plan_in.history = <<>>
    /\ plan_in.account_balance # None
    /\ plan_in.risk_percent # None
    /\ plan[1].lots = None

PlanCore(p) ==
    <<p.direction, p.entry, p.stop, p.take_profit, p.rr, p.stop_distance, p.lots>>

\* the ATR of the latest trade date that has a positive one
LatestAtr(history) ==
    LET com_atr == {i \in 1..Len(history) : has_atr(history[i])}
    IN  IF com_atr = {} THEN None
        ELSE history[CHOOSE i \in com_atr :
                        \A j \in com_atr : history[j].trade_date <= history[i].trade_date].atr14

\* C9: the plan (direction, entry, stop, take_profit, rr, stop_distance, lots)
\* is the same for every permutation of the history rows, and when some row
\* has a positive ATR the ATR that sizes the stop is the one of the latest
\* trade date.
C9_PlanIgnoresRowOrder ==
    (plan # None /\ plan_in.history # <<>>) =>
        /\ \A p \in Permutations(1..Len(plan_in.history)) :
              PlanCore(build_entry_plan_de(
                  [plan_in EXCEPT !.history = [i \in 1..Len(plan_in.history) |-> plan_in.history[p[i]]]]))
              = PlanCore(plan[1])
        /\ LatestAtr(plan_in.history) # None =>
              plan[1].stats.current_atr14 = LatestAtr(plan_in.history)

(***************************************************************************)
(* xau_asia_oanda_build.py: _atr14_by_date                                 *)
(*                                                                         *)
(* The result is [raised, out]: raised when a zip(..., strict=True) meets  *)
(* lists of different lengths (ValueError), out the mapping date -> atr14. *)
(***************************************************************************)
\* line 34: n = 14
atr_n == 14

\* a true range that starts from prev_close = 0.0 instead of None
true_range_prev_zero(h, l, prev_close) ==
    LET prev == IF prev_close = None THEN R(0) ELSE prev_close
    IN  RMax(RMax(RSub(h, l), RAbs(RSub(h, prev))), RAbs(RSub(l, prev)))

\* lines 28-31: the true range of a day, prev_close None on the first day
true_range(h, l, prev_close) ==
    IF prev_close = None THEN RSub(h, l)
    ELSE RMax(RMax(RSub(h, l), RAbs(RSub(h, prev_close))), RAbs(RSub(l, prev_close)))

\* lines 25-32: the loop that fills tr
RECURSIVE tr_loop(_, _, _, _, _)
tr_loop(high, low, close, i, tr) ==
    IF i > Len(high) THEN tr
    ELSE tr_loop(high, low, close, i + 1,
                 Append(tr, true_range(high[i], low[i],
                                       IF i = 1 THEN None ELSE close[i - 1])))

\* smoothing by the plain mean of the previous value and the new range
wilder_media(prev, tr_i) == RDiv(RAdd(prev, tr_i), R(2))

\* line 41: Wilder smoothing
wilder(prev, tr_i) == RDiv(RAdd(RMul(prev, R(atr_n - 1)), tr_i), R(atr_n))

\* lines 37-41: the list atr, None before index n - 1 (position n here)
RECURSIVE wilder_loop(_, _, _)
wilder_loop(tr, i, atr) ==
    IF i > Len(tr) THEN atr
    ELSE wilder_loop(tr, i + 1, Append(atr, wilder(atr[i - 1], tr[i])))

\* a seed that is the mean of every true range, later days included
atr_list_media_total(tr) ==
    wilder_loop(tr, atr_n + 1,
                [i \in 1..atr_n |-> IF i < atr_n THEN None
                                    ELSE RDiv(RSum(tr), R(Len(tr)))])

atr_list(tr) ==
    wilder_loop(tr, atr_n + 1,
                [i \in 1..atr_n |-> IF i < atr_n THEN None
                                    ELSE RDiv(RSum(SubSeq(tr, 1, atr_n)), R(atr_n))])

_atr14_by_date(dates, high, low, close) ==
    IF dates = <<>> THEN [raised |-> FALSE, out |-> [d \in {} |-> None]]
    ELSE IF ~(Len(high) = Len(low) /\ Len(low) = Len(close))
    THEN [raised |-> TRUE, out |-> [d \in {} |-> None]]
    ELSE IF Len(high) < atr_n THEN [raised |-> FALSE, out |-> [d \in {} |-> None]]
    ELSE Let(atr_list(tr_loop(high, low, close, 1, <<>>)), LAMBDA atr :
         IF Len(dates) # Len(atr) THEN [raised |-> TRUE, out |-> [d \in {} |-> None]]
         ELSE [raised |-> FALSE,
               out |-> [d \in {dates[i] : i \in {j \in 1..Len(atr) : atr[j] # None}} |->
                          atr[CHOOSE i \in 1..Len(atr) :
                                 /\ dates[i] = d
                                 /\ \A j \in 1..Len(atr) : dates[j] = d => j <= i]]])

(***************************************************************************)
(* _atr14_by_date on bounded inputs: lists of up to MaxDias days with      *)
(* dates 1..n, the days' prices repeating a pattern of PatLen days, the    *)
(* first day possibly one with high < low, and possibly one date more than *)
(* there are prices.                                                       *)
(***************************************************************************)
MaxDias == 15
PatLen == 4

\* <<high, low, close>> of a day: two days that gap away from each other's
\* close, and a flat day
DayKinds ==
    { <<R(2010), R(2000), R(2009)>>, <<R(2030), R(2022), R(2024)>>,
      <<R(100), R(100), R(100)>> }

\* a first day with high < low
DiaInvertido == <<R(100), R(110), R(100)>>

DayLists ==
    { [dates |-> [i \in 1..(days + extra) |-> i],
       high  |-> [i \in 1..days |-> IF i = 1 /\ inv THEN DiaInvertido[1]
                                     ELSE pat[((i - 1) % PatLen) + 1][1]],
       low   |-> [i \in 1..days |-> IF i = 1 /\ inv THEN DiaInvertido[2]
                                     ELSE pat[((i - 1) % PatLen) + 1][2]],
       close |-> [i \in 1..days |-> IF i = 1 /\ inv THEN DiaInvertido[3]
                                     ELSE pat[((i - 1) % PatLen) + 1][3]]] :
      days \in 0..MaxDias, extra \in {0, 1}, inv \in BOOLEAN,
      pat \in [1..PatLen -> DayKinds] }

InitAtr ==
    /\ InitEngine
    /\ use_lock = FALSE
    /\ InitConc
    /\ relogio = 0
    /\ janela = None
    /\ plan_in = None
    /\ plan = None
    /\ dias \in DayLists
    /\ atr14 = None
    /\ fn_args = None
    /\ fn_ret = None

\* line 131: atr14 = _atr14_by_date(dates, day_high, day_low, day_close)
CalcularAtr ==
    /\ atr14 = None
    /\ atr14' = Some(_atr14_by_date(dias.dates, dias.high, dias.low, dias.close))
    /\ UNCHANGED <<engine_vars, conc_vars, relogio, janela, plan_in, plan, dias, fn_args, fn_ret>>

NextAtr == CalcularAtr

SpecAtr == InitAtr /\ [][NextAtr]_vars

(***************************************************************************)
(* ATR(14)                                                                 *)
(***************************************************************************)
\* the true range of day i of the lists passed (i from 1)
TrueRange(i) ==
    IF i = 1 THEN RSub(dias.high[i], dias.low[i])
    ELSE RMax(RSub(dias.high[i], dias.low[i]),
              RMax(RAbs(RSub(dias.high[i], dias.close[i - 1])),
                   RAbs(RSub(dias.low[i], dias.close[i - 1]))))

\* C10: given fewer than 14 days _atr14_by_date returns the empty mapping and
\* does not raise; given n >= 14 days with distinct dates it returns a value
\* for exactly the dates at indices 13..n-1 (positions 14..n here), the one at
\* index 13 being the arithmetic mean of the true ranges 0..13 and the one at
\* each i >= 14 being (atr[i-1] * 13 + tr[i]) / 14.
C10_Atr14Wilder ==
    (atr14 # None /\ Len(dias.dates) = Len(dias.high)) =>
        LET days == Len(dias.dates)
            out == atr14[1].out
        IN  /\ ~atr14[1].raised
            /\ days < 14 => DOMAIN out = {}
            /\ days >= 14 =>
                 /\ DOMAIN out = {dias.dates[i] : i \in 14..days}
                 /\ out[dias.dates[14]] =
                       RDiv(RSum([i \in 1..14 |-> TrueRange(i)]), R(14))
                 /\ \A i \in 15..days :
                       out[dias.dates[i]] =
                          RDiv(RAdd(RMul(out[dias.dates[i - 1]], R(13)), TrueRange(i)), R(14))

\* fifteen days: the first value is the seed, the second a smoothed one
C10_Witness ==
    /\ atr14 # None
    /\ Len(dias.dates) = 15
    /\ Len(dias.high) = 15
    /\ ~atr14[1].raised
    /\ DOMAIN atr14[1].out = {14, 15}
    /\ atr14[1].out[15] # atr14[1].out[14]

\* C11: on a constant series (high = low = close, the same on every day, 14
\* days or more) every value returned, from index 13 on, is 0; and whenever
\* high >= low on every day no value returned is negative.
C11_AtrNonNegative ==
    (atr14 # None /\ Len(dias.dates) = Len(dias.high)) =>
        LET days == Len(dias.dates)
            out == atr14[1].out
        IN  /\ (/\ days >= 14
                /\ \A i \in 1..days :
                      /\ dias.high[i] = dias.low[i]
                      /\ dias.low[i] = dias.close[i]
                      /\ dias.close[i] = dias.close[1])
               => /\ DOMAIN out = {dias.dates[i] : i \in 14..days}
                  /\ \A d \in DOMAIN out : out[d] = R(0)
            /\ (\A i \in 1..days : RGe(dias.high[i], dias.low[i]))
               => \A d \in DOMAIN out : RGe(out[d], R(0))

\* fifteen flat days at 100: both values returned are 0
C11_Witness ==
    /\ atr14 # None
    /\ Len(dias.dates) = 15
    /\ Len(dias.high) = 15
    /\ \A i \in 1..15 : dias.high[i] = R(100) /\ dias.low[i] = R(100) /\ dias.close[i] = R(100)
    /\ atr14[1].out[14] = R(0)
    /\ atr14[1].out[15] = R(0)

\* the first i days of the lists passed
Prefixo(i) ==
    [dates |-> SubSeq(dias.dates, 1, i), high |-> SubSeq(dias.high, 1, i),
     low |-> SubSeq(dias.low, 1, i), close |-> SubSeq(dias.close, 1, i)]

\* C26: the value returned for the day at index i is the value returned for
\* that day when only days 0..i are passed, so two series that agree on days
\* 0..i, whatever their later days, get the same value for day i.
C26_AtrCausal ==
    (atr14 # None /\ Len(dias.dates) = Len(dias.high) /\ ~atr14[1].raised) =>
        \A i \in 1..Len(dias.dates) :
            Let(Prefixo(i), LAMBDA p :
            Let(_atr14_by_date(p.dates, p.high, p.low, p.close), LAMBDA so_ate_i :
                /\ ~so_ate_i.raised
                /\ dias.dates[i] \in DOMAIN atr14[1].out <=> dias.dates[i] \in DOMAIN so_ate_i.out
                /\ dias.dates[i] \in DOMAIN atr14[1].out =>
                      atr14[1].out[dias.dates[i]] = so_ate_i.out[dias.dates[i]]))

\* fifteen days whose last true range is not the value of day 14: day 14 has
\* a later day that would move any average it entered
C26_Witness ==
    /\ atr14 # None
    /\ Len(dias.dates) = 15
    /\ Len(dias.high) = 15
    /\ ~atr14[1].raised
    /\ 14 \in DOMAIN atr14[1].out
    /\ TrueRange(15) # atr14[1].out[14]
    /\ RGt(TrueRange(15), R(0))

(***************************************************************************)
(* get_niveis_psicologicos on bounded inputs: reference prices from 2.5 up *)
(* in steps of 2.5 (so small that non-positive candidates are discarded),  *)
(* the prices around the step bands, and explicit, absent and unusable     *)
(* steps.                                                                  *)
(***************************************************************************)
MaxNivelK == 12

NivelPrecos ==
    {Rat(5 * k, 2) : k \in 1..MaxNivelK}
        \cup {R(2000), R(2005), R(4800), Rat(49035, 10), R(5000), R(5012)}

NivelSteps == {None, R(0), R(-10), R(10), R(50), Rat(5, 2)}

InitNiveis ==
    /\ InitEngine
    /\ use_lock = FALSE
    /\ InitConc
    /\ relogio = 0
    /\ janela = None
    /\ plan_in = None
    /\ plan = None
    /\ dias = <<>>
    /\ atr14 = None
    /\ fn_args \in {[preco_atual |-> p, step_dia |-> st] : p \in NivelPrecos, st \in NivelSteps}
    /\ fn_ret = None

GetNiveis ==
    /\ fn_ret = None
    /\ fn_ret' = Some(get_niveis_psicologicos(fn_args.preco_atual, fn_args.step_dia))
    /\ UNCHANGED <<engine_vars, conc_vars, relogio, janela, plan_in, plan, dias, atr14, fn_args>>

NextNiveis == GetNiveis

SpecNiveis == InitNiveis /\ [][NextNiveis]_vars

(***************************************************************************)
(* Psychological levels                                                    *)
(***************************************************************************)
\* the step in force and the positive candidates base + k * step, k in -40..40
NivelStep == IF fn_args.step_dia # None /\ RGt(fn_args.step_dia, R(0))
             THEN fn_args.step_dia
             ELSE IF RLt(fn_args.preco_atual, R(4800)) THEN R(50)
             ELSE IF RLt(fn_args.preco_atual, R(5000)) THEN R(10)
             ELSE R(20)

NivelBase == RMul(R(PyRound(RDiv(fn_args.preco_atual, NivelStep))), NivelStep)

NivelCandidatos ==
    {v \in {RAdd(NivelBase, RMul(R(k), NivelStep)) : k \in -40..40} : RGt(v, R(0))}

NivelDist(v) == RAbs(RSub(v, fn_args.preco_atual))

\* C12: for a reference price > 0 and a step > 0, given or inferred, exactly 20
\* levels are returned, all with value > 0, their distance to the reference
\* never decreasing along the list, and they are the 20 closest of the
\* (positive) candidates base + k * step, k in -40..40.
C12_TwentyClosestLevels ==
    (fn_ret # None /\ RGt(fn_args.preco_atual, R(0))) =>
        LET niveis == fn_ret[1]
            valores == {niveis[i].valor : i \in 1..Len(niveis)}
        IN  /\ Len(niveis) = 20
            /\ Cardinality(valores) = 20
            /\ \A i \in 1..Len(niveis) :
                  /\ RGt(niveis[i].valor, R(0))
                  /\ niveis[i].step = NivelStep
            /\ \A i \in 1..(Len(niveis) - 1) :
                  RLe(NivelDist(niveis[i].valor), NivelDist(niveis[i + 1].valor))
            /\ valores \subseteq NivelCandidatos
            /\ \A v \in NivelCandidatos \ valores :
                  \A u \in valores : RLe(NivelDist(u), NivelDist(v))

\* price 2.5 with step 10: base 0, the candidates 0 and below are discarded
\* and the 20 levels are 10, 20, ..., 200
C12_Witness ==
    /\ fn_ret # None
    /\ fn_args.preco_atual = Rat(5, 2)
    /\ fn_args.step_dia = R(10)
    /\ Len(fn_ret[1]) = 20
    /\ fn_ret[1][1].valor = R(10)
    /\ fn_ret[1][20].valor = R(200)

\* C13 as stated: the distances to the reference are strictly increasing
\* along the list (no two consecutive levels at the same distance); for
\* reference 2005 and step 10 the base 2000 is included and 20 levels returned.
C13_StrictlyAscending ==
    (fn_ret # None /\ RGt(fn_args.preco_atual, R(0))) =>
        LET niveis == fn_ret[1]
        IN  /\ \A i \in 1..(Len(niveis) - 1) :
                  RLt(NivelDist(niveis[i].valor), NivelDist(niveis[i + 1].valor))
            /\ (fn_args.preco_atual = R(2005) /\ fn_args.step_dia = R(10)) =>
                  /\ Len(niveis) = 20
                  /\ \E i \in 1..Len(niveis) : niveis[i].valor = R(2000)

\* C13 amended: the distances never decrease; two consecutive levels at the
\* same distance are the two values either side of the reference, the lower
\* one first, and the level after them is farther; for reference 2005 and
\* step 10 the list has 20 levels and starts 2000 (strength 5), 2010
\* (strength 2), both at distance 5.
C13_AscendingWithTies ==
    (fn_ret # None /\ RGt(fn_args.preco_atual, R(0))) =>
        LET niveis == fn_ret[1]
        IN  /\ \A i \in 1..(Len(niveis) - 1) :
                  \/ RLt(NivelDist(niveis[i].valor), NivelDist(niveis[i + 1].valor))
                  \/ /\ NivelDist(niveis[i].valor) = NivelDist(niveis[i + 1].valor)
                     /\ RLt(niveis[i].valor, fn_args.preco_atual)
                     /\ RGt(niveis[i + 1].valor, fn_args.preco_atual)
                     /\ i + 2 <= Len(niveis) =>
                           RLt(NivelDist(niveis[i + 1].valor), NivelDist(niveis[i + 2].valor))
            /\ (fn_args.preco_atual = R(2005) /\ fn_args.step_dia = R(10)) =>
                  /\ Len(niveis) = 20
                  /\ niveis[1].valor = R(2000) /\ niveis[1].forca = 5
                  /\ niveis[2].valor = R(2010) /\ niveis[2].forca = 2
                  /\ NivelDist(niveis[1].valor) = R(5)
                  /\ NivelDist(niveis[2].valor) = R(5)

\* reference 2005, step 10: 2000 and 2010 come first, both 5 away
C13_Witness ==
    /\ fn_ret # None
    /\ fn_args.preco_atual = R(2005)
    /\ fn_args.step_dia = R(10)
    /\ fn_ret[1][1].valor = R(2000)
    /\ fn_ret[1][2].valor = R(2010)

\* v is a whole multiple of m
MultiploDe(v, m) == v[2] = 1 /\ v[1] % m = 0

\* C27: the strength of every level returned is 5 when its value is divisible
\* by 100, else 4 when by 50, else 3 when by 20, else 2 when by 10, else 1;
\* its type is 'suporte' below the reference price, 'resistencia' above and
\* 'ambos' when equal; at most one level returned has type 'ambos'.
C27_StrengthAndType ==
    fn_ret # None =>
        LET niveis == fn_ret[1]
        IN  /\ \A i \in 1..Len(niveis) :
                  LET v == niveis[i].valor
                  IN  /\ niveis[i].forca \in 1..5
                      /\ niveis[i].forca = 5 <=> MultiploDe(v, 100)
                      /\ niveis[i].forca = 4 <=> (MultiploDe(v, 50) /\ ~MultiploDe(v, 100))
                      /\ niveis[i].forca = 3 <=>
                            (MultiploDe(v, 20) /\ ~MultiploDe(v, 50) /\ ~MultiploDe(v, 100))
                      /\ niveis[i].forca = 2 <=>
                            (MultiploDe(v, 10) /\ ~MultiploDe(v, 20) /\ ~MultiploDe(v, 50))
                      /\ niveis[i].forca = 1 <=> ~MultiploDe(v, 10)
                      /\ niveis[i].tipo = "suporte" <=> RLt(v, fn_args.preco_atual)
                      /\ niveis[i].tipo = "resistencia" <=> RGt(v, fn_args.preco_atual)
                      /\ niveis[i].tipo = "ambos" <=> v = fn_args.preco_atual
            /\ Cardinality({i \in 1..Len(niveis) : niveis[i].tipo = "ambos"}) <= 1

\* price 2000 with step 10: 2000 itself is the one level of type 'ambos' and
\* has strength 5, 2010 is a resistance of strength 2, 1950 a support of
\* strength 4 and 2020 a resistance of strength 3
C27_Witness ==
    /\ fn_ret # None
    /\ fn_args.preco_atual = R(2000)
    /\ fn_args.step_dia = R(10)
    /\ \E i \in 1..Len(fn_ret[1]) :
          fn_ret[1][i] = [valor |-> R(2000), step |-> R(10), tipo |-> "ambos", forca |-> 5]
    /\ \E i \in 1..Len(fn_ret[1]) :
          fn_ret[1][i] = [valor |-> R(2010), step |-> R(10), tipo |-> "resistencia", forca |-> 2]
    /\ \E i \in 1..Len(fn_ret[1]) :
          fn_ret[1][i] = [valor |-> R(1950), step |-> R(10), tipo |-> "suporte", forca |-> 4]
    /\ \E i \in 1..Len(fn_ret[1]) :
          fn_ret[1][i] = [valor |-> R(2020), step |-> R(10), tipo |-> "resistencia", forca |-> 3]

(***************************************************************************)
(* detectar_rejeicao on bounded inputs: candles with body 100-101 (either  *)
(* way round) and wicks below, at and above the minimum wick and the cap,  *)
(* levels either side of the touch tolerance, and direction values.        *)
(***************************************************************************)
RejPavios == {R(0), Rat(3, 2), R(2), R(5), R(6), R(8)}

RejCandles ==
    {[open |-> oc[1], close |-> oc[2],
      high |-> RAdd(R(101), up), low |-> RSub(R(100), lo)] :
        oc \in {<<R(100), R(101)>>, <<R(101), R(100)>>}, up \in RejPavios, lo \in RejPavios}

RejNiveis == {R(90), Rat(189, 2), R(96), Rat(207, 2), R(110)}

RejDirecoes == {"COMPRA", "VENDA", "AMBAS", "compra", ""}

InitRejeicao ==
    /\ InitEngine
    /\ use_lock = FALSE
    /\ InitConc
    /\ relogio = 0
    /\ janela = None
    /\ plan_in = None
    /\ plan = None
    /\ dias = <<>>
    /\ atr14 = None
    /\ fn_args \in {[candle |-> c, nivel |-> n, direcao_esperada |-> d] :
                      c \in RejCandles, n \in RejNiveis, d \in RejDirecoes}
    /\ fn_ret = None

DetectarRejeicao ==
    /\ fn_ret = None
    /\ fn_ret' = Some(detectar_rejeicao(fn_args.candle, fn_args.nivel, fn_args.direcao_esperada))
    /\ UNCHANGED <<engine_vars, conc_vars, relogio, janela, plan_in, plan, dias, atr14, fn_args>>

NextRejeicao == DetectarRejeicao

SpecRejeicao == InitRejeicao /\ [][NextRejeicao]_vars

(***************************************************************************)
(* Rejection                                                               *)
(***************************************************************************)
RejLowerWick ==
    RSub(IF RLt(fn_args.candle.open, fn_args.candle.close)
         THEN fn_args.candle.open ELSE fn_args.candle.close, fn_args.candle.low)

RejUpperWick ==
    RSub(fn_args.candle.high,
         IF RGt(fn_args.candle.open, fn_args.candle.close)
         THEN fn_args.candle.open ELSE fn_args.candle.close)

\* min(wick / 2, 3.0), min wick 2
RejForca(wick) == IF RLt(RDiv(wick, R(2)), R(3)) THEN RDiv(wick, R(2)) ELSE R(3)

\* C14: with tolerance 0.5 and min wick 2, detectar_rejeicao returns
\* (True, min(lower_wick / 2, 3.0)) for COMPRA exactly when
\* low <= level + 0.5 and lower_wick = min(open, close) - low >= 2, returns
\* (True, min(upper_wick / 2, 3.0)) for VENDA exactly when high >= level - 0.5
\* and upper_wick = high - max(open, close) >= 2, and (False, 0) in every
\* other case, any other direction value included; a reported rejection has
\* strength in [1, 3]; the candle 100/103/95/101 at level 96, COMPRA, gives 2.5.
C14_RejectionRule ==
    fn_ret # None =>
        LET compra == /\ fn_args.direcao_esperada = "COMPRA"
                      /\ RLe(fn_args.candle.low, RAdd(fn_args.nivel, Rat(1, 2)))
                      /\ RGe(RejLowerWick, R(2))
            venda  == /\ fn_args.direcao_esperada = "VENDA"
                      /\ RGe(fn_args.candle.high, RSub(fn_args.nivel, Rat(1, 2)))
                      /\ RGe(RejUpperWick, R(2))
        IN  /\ compra => fn_ret[1] = <<TRUE, RejForca(RejLowerWick)>>
            /\ venda => fn_ret[1] = <<TRUE, RejForca(RejUpperWick)>>
            /\ (~compra /\ ~venda) => fn_ret[1] = <<FALSE, R(0)>>
            /\ fn_ret[1][1] => RGe(fn_ret[1][2], R(1)) /\ RLe(fn_ret[1][2], R(3))
            /\ (/\ fn_args.candle = [open |-> R(100), high |-> R(103),
                                     low |-> R(95), close |-> R(101)]
                /\ fn_args.nivel = R(96)
                /\ fn_args.direcao_esperada = "COMPRA")
               => fn_ret[1] = <<TRUE, Rat(5, 2)>>

\* the candle 100/103/95/101 at level 96, COMPRA: strength 2.5
C14_Witness ==
    /\ fn_ret # None
    /\ fn_args.candle = [open |-> R(100), high |-> R(103), low |-> R(95), close |-> R(101)]
    /\ fn_args.nivel = R(96)
    /\ fn_args.direcao_esperada = "COMPRA"
    /\ fn_ret[1] = <<TRUE, Rat(5, 2)>>

(***************************************************************************)
(* trade_pattern_analysis.py                                               *)
(*                                                                         *)
(* A TradeFeatures value is a record of its fields; optional strings and   *)
(* booleans are <<>> or <<x>>, optional floats are <<>> or the rational.   *)
(* math.sqrt(x) is kept as the record [sqrt |-> x] of its radicand: two    *)
(* roots are equal, or ordered, as their radicands are.                    *)
(***************************************************************************)
sqrt(x) == [sqrt |-> x]

\* lines 127-129: "1.0 if x else 0.0 if x is not None else 0.0"
flag_float(x) == IF x # None /\ x[1] THEN R(1) ELSE R(0)

\* line 130
level_type_float(level_type) ==
    LET up == str_upper(IF level_type = None THEN "" ELSE level_type[1])
    IN  IF up = "SUPORTE" THEN R(1)
        ELSE IF up = "RESISTENCIA" THEN R(-1)
        ELSE R(0)

\* "x if x is not None else 0.0"
or_zero(x) == IF x # None THEN x ELSE R(0)

_vec(f) ==
    <<R(f.hour), R(f.timeframe_min), R(f.direction_sign),
      level_type_float(f.level_type), flag_float(f.touched_level),
      flag_float(f.rejection), flag_float(f.confirmation), f.rr,
      or_zero(f.risk_atr), or_zero(f.reward_atr),
      or_zero(f.entry_round_dist), or_zero(f.entry_level_dist_atr)>>

\* line 156
default_weights ==
    <<Rat(6, 10), Rat(2, 10), Rat(6, 10), Rat(5, 10), Rat(3, 10), Rat(3, 10),
      Rat(3, 10), Rat(8, 10), Rat(12, 10), Rat(12, 10), Rat(4, 10), R(1)>>

\* lines 168-170: the loop over zip(weights, tv, v)
RECURSIVE d2_loop(_, _, _, _, _)
d2_loop(weights, tv, v, i, d2) ==
    IF i > Len(weights) THEN d2
    ELSE d2_loop(weights, tv, v, i + 1,
                 RAdd(d2, RMul(RMul(weights[i], RSub(tv[i], v[i])), RSub(tv[i], v[i]))))

\* no penalty at all
sem_penalidade(target, f) == R(0)

\* lines 172-178: what is added when the two sides disagree on presence
penalty(target, f) ==
    RAdd(RAdd(IF (target.risk_atr = None) # (f.risk_atr = None) THEN R(2) ELSE R(0),
              IF (target.reward_atr = None) # (f.reward_atr = None) THEN R(2) ELSE R(0)),
         IF (target.entry_level_dist_atr = None) # (f.entry_level_dist_atr = None)
         THEN R(1) ELSE R(0))

\* lines 167-180: the radicand of the distance from target to f
d2_of(target, f, weights) ==
    RAdd(d2_loop(weights, _vec(target), _vec(f), 1, R(0)), penalty(target, f))

\* "out[: int(k)]"
slice_to(seq, k) ==
    SubSeq(seq, 1, IF k >= 0 THEN (IF k < Len(seq) THEN k ELSE Len(seq))
                   ELSE (IF Len(seq) + k > 0 THEN Len(seq) + k ELSE 0))

\* weights is None (the default weights are used) or a list of 12 floats
nearest_neighbors(features, target_id, k, weights) ==
    LET w == IF weights = None THEN default_weights ELSE weights
        ids == {i \in 1..Len(features) : features[i].trade_id = target_id}
    IN  IF ids = {} THEN <<>>
        ELSE Let(features[CHOOSE i \in ids : \A j \in ids : j <= i], LAMBDA target :
             Let(SelectSeq(features, LAMBDA f : f.trade_id # target_id), LAMBDA others :
             Let([i \in 1..Len(others) |-> d2_of(target, others[i], w)], LAMBDA d2s :
                 slice_to(StableSortByKey([i \in 1..Len(others) |->
                                              <<others[i].trade_id, sqrt(d2s[i])>>], d2s),
                          k))))

(***************************************************************************)
(* nearest_neighbors on bounded inputs: lists of up to MaxFeats features,  *)
(* trade ids 1..n in list order (or the last one repeating id 1), a target *)
(* id that may be absent, and k = 0, 1 and the default 8.                  *)
(***************************************************************************)
MaxFeats == 3

FeatBase ==
    [trade_id |-> 0, hour |-> 9, timeframe_min |-> 5, direction_sign |-> 1,
     level_type |-> Some("SUPORTE"), touched_level |-> Some(TRUE),
     rejection |-> Some(TRUE), confirmation |-> None,
     rr |-> R(2), risk |-> R(5), reward |-> R(10), atr14 |-> R(10),
     risk_atr |-> Rat(1, 2), reward_atr |-> R(1), entry_round_dist |-> R(1),
     entry_level_dist |-> R(2), entry_level_dist_atr |-> Rat(1, 5),
     result_r |-> None]

\* the base trade; the same without one, or without all, of its ATR-normalized
\* values; the same with ATR-normalized risk 0
FeatKinds ==
    { FeatBase,
      [FeatBase EXCEPT !.risk_atr = None],
      [FeatBase EXCEPT !.reward_atr = None],
      [FeatBase EXCEPT !.atr14 = None, !.risk_atr = None, !.reward_atr = None,
                       !.entry_level_dist_atr = None],
      [FeatBase EXCEPT !.risk_atr = R(0)] }

FeatLists ==
    UNION { { [i \in 1..n |-> [ks[i] EXCEPT !.trade_id = IF dup /\ i = n THEN 1 ELSE i]] :
                ks \in [1..n -> FeatKinds], dup \in BOOLEAN } :
            n \in 0..MaxFeats }

NeighborKs == {0, 1, 8}

InitVizinhos ==
    /\ InitEngine
    /\ use_lock = FALSE
    /\ InitConc
    /\ relogio = 0
    /\ janela = None
    /\ plan_in = None
    /\ plan = None
    /\ dias = <<>>
    /\ atr14 = None
    /\ fn_args \in {[features |-> fs, target_id |-> t, k |-> kk] :
                      fs \in FeatLists, t \in 1..(MaxFeats + 1), kk \in NeighborKs}
    /\ fn_ret = None

NearestNeighbors ==
    /\ fn_ret = None
    /\ fn_ret' = Some(nearest_neighbors(fn_args.features, fn_args.target_id, fn_args.k, None))
    /\ UNCHANGED <<engine_vars, conc_vars, relogio, janela, plan_in, plan, dias, atr14, fn_args>>

NextVizinhos == NearestNeighbors

SpecVizinhos == InitVizinhos /\ [][NextVizinhos]_vars

(***************************************************************************)
(* Nearest neighbours                                                      *)
(***************************************************************************)
\* positions of the target id and of the other trades in the list given
NNTargets == {i \in 1..Len(fn_args.features) : fn_args.features[i].trade_id = fn_args.target_id}
NNOthers == {i \in 1..Len(fn_args.features) : fn_args.features[i].trade_id # fn_args.target_id}

\* the target is the last feature with the target id (dict by id)
NNTarget == fn_args.features[CHOOSE i \in NNTargets : \A j \in NNTargets : j <= i]

\* radicand of the distance from the target to the feature at position i
NNDist(i) == d2_of(NNTarget, fn_args.features[i], default_weights)

\* C15: for k >= 0 the result has exactly min(k, number of trades other than
\* the target) pairs (trade_id, distance), none of them the target, in
\* ascending order of distance, trades at equal distance in their order in the
\* input list, and they are the first of the list so ordered; the result is
\* empty when the target id is not among the features.
C15_NeighborsOrdered ==
    (fn_ret # None /\ fn_args.k >= 0) =>
        LET ret == fn_ret[1]
            others == Cardinality(NNOthers)
        IN  /\ NNTargets = {} => ret = <<>>
            /\ NNTargets # {} =>
                 /\ Len(ret) = (IF fn_args.k < others THEN fn_args.k ELSE others)
                 /\ \A j \in 1..Len(ret) : ret[j][1] # fn_args.target_id
                 /\ \E pos \in [1..Len(ret) -> NNOthers] :
                       /\ \A j \in 1..Len(ret) :
                             /\ ret[j][1] = fn_args.features[pos[j]].trade_id
                             /\ ret[j][2] = sqrt(NNDist(pos[j]))
                       /\ \A j, h \in 1..Len(ret) : j # h => pos[j] # pos[h]
                       /\ \A j \in 1..Len(ret), p \in NNOthers :
                             (\A h \in 1..j : p # pos[h]) =>
                                \/ RLt(NNDist(pos[j]), NNDist(p))
                                \/ NNDist(pos[j]) = NNDist(p) /\ pos[j] < p

\* a target without ATR-normalized risk and two identical trades that have
\* it: both at the same distance, returned in list order
C15_Witness ==
    /\ fn_ret # None
    /\ Len(fn_args.features) = 3
    /\ fn_args.target_id = 3
    /\ fn_args.k = 8
    /\ fn_args.features[1] = [FeatBase EXCEPT !.trade_id = 1]
    /\ fn_args.features[2] = [FeatBase EXCEPT !.trade_id = 2]
    /\ fn_args.features[3] = [FeatBase EXCEPT !.trade_id = 3, !.risk_atr = None]
    /\ fn_ret[1] = <<<<1, sqrt(Rat(23, 10))>>, <<2, sqrt(Rat(23, 10))>>>>

\* the weighted squared difference of the vectors, without penalty
NNBase(i) == d2_loop(default_weights, _vec(NNTarget), _vec(fn_args.features[i]), 1, R(0))

\* C16: the radicand of every distance returned is the weighted squared
\* difference plus 2.0, 2.0 and 1.0 for each of ATR-normalized risk, reward and
\* level distance that one side has and the other lacks; so a candidate that
\* lacks a value the target has is never at distance 0, and two trades equal
\* but for ATR-normalized risk 0.5 against undefined are farther apart than
\* two trades that both have 0.5.
C16_PresencePenalty ==
    (fn_ret # None /\ NNTargets # {} /\ fn_args.k >= Len(fn_args.features)) =>
        \A i \in NNOthers :
            LET f == fn_args.features[i]
                dif(a, b) == (a = None) # (b = None)
                esperado == RAdd(NNBase(i),
                              RAdd(IF dif(NNTarget.risk_atr, f.risk_atr) THEN R(2) ELSE R(0),
                              RAdd(IF dif(NNTarget.reward_atr, f.reward_atr) THEN R(2) ELSE R(0),
                                   IF dif(NNTarget.entry_level_dist_atr, f.entry_level_dist_atr)
                                   THEN R(1) ELSE R(0))))
            IN  /\ <<f.trade_id, sqrt(esperado)>> \in {fn_ret[1][j] : j \in 1..Len(fn_ret[1])}
                /\ (dif(NNTarget.risk_atr, f.risk_atr) \/ dif(NNTarget.reward_atr, f.reward_atr)
                    \/ dif(NNTarget.entry_level_dist_atr, f.entry_level_dist_atr))
                   => RGt(esperado, R(0))
                /\ (NNTarget = [FeatBase EXCEPT !.trade_id = NNTarget.trade_id] /\
                    f = [FeatBase EXCEPT !.trade_id = f.trade_id, !.risk_atr = None])
                   => esperado = Rat(23, 10)
                /\ (NNTarget = [FeatBase EXCEPT !.trade_id = NNTarget.trade_id] /\
                    f = [FeatBase EXCEPT !.trade_id = f.trade_id])
                   => esperado = R(0)

\* the base trade as target, the same trade without ATR-normalized risk as the
\* only candidate: 1.2 * 0.5 * 0.5 + 2.0 = 2.3
C16_Witness ==
    /\ fn_ret # None
    /\ fn_args.target_id = 1
    /\ fn_args.k = 8
    /\ fn_args.features = <<[FeatBase EXCEPT !.trade_id = 1],
                            [FeatBase EXCEPT !.trade_id = 2, !.risk_atr = None]>>
    /\ fn_ret[1] = <<<<2, sqrt(Rat(23, 10))>>>>


(***************************************************************************)
(* trade_pattern_analysis.extract_features: one feature record per trade   *)
(* sample of the journal.                                                  *)
(***************************************************************************)

\* _parse_iso(dt).hour for the timestamps of the samples below; a trailing "Z"
\* is read as +00:00 and leaves the hour as written
_parse_iso_hour(dt) ==
    CASE dt = "2024-03-05T09:30:00"  -> 9
      [] dt = "2024-03-05T14:05:00Z" -> 14

_safe_div(a, b) == IF b = R(0) THEN None ELSE RDiv(a, b)

\* the body of the loop: the feature record of one trade sample
features_of(t, default_round_step) ==
    LET direction_sign == IF str_upper(t.direction) = "LONG" THEN 1 ELSE -1
        risk == RAbs(RSub(t.entry, t.sl))
        reward == RAbs(RSub(t.tp, t.entry))
        rr == IF RGt(risk, R(0)) THEN RDiv(reward, risk) ELSE R(0)
        atr == IF t.atr14 # None /\ RGt(t.atr14, R(0)) THEN t.atr14 ELSE None
        step == IF t.psych_step # None /\ RGt(t.psych_step, R(0)) THEN t.psych_step
                ELSE default_round_step
        com_nivel == t.psych_level # None /\ RGt(t.psych_level, R(0))
        entry_level_dist == IF com_nivel THEN RAbs(RSub(t.entry, t.psych_level)) ELSE None
    IN  [trade_id |-> t.trade_id,
         hour |-> _parse_iso_hour(t.dt_lisbon),
         timeframe_min |-> t.timeframe_min,
         direction_sign |-> direction_sign,
         level_type |-> t.level_type,
         touched_level |-> t.touched_level,
         rejection |-> t.rejection,
         confirmation |-> t.confirmation,
         rr |-> rr,
         risk |-> risk,
         reward |-> reward,
         atr14 |-> atr,
         risk_atr |-> IF atr # None THEN _safe_div(risk, atr) ELSE None,
         reward_atr |-> IF atr # None THEN _safe_div(reward, atr) ELSE None,
         entry_round_dist |->
             IF RGt(step, R(0))
             THEN RAbs(RSub(t.entry, RMul(R(PyRound(RDiv(t.entry, step))), step)))
             ELSE None,
         entry_level_dist |-> entry_level_dist,
         entry_level_dist_atr |->
             IF com_nivel /\ atr # None THEN RDiv(entry_level_dist, atr) ELSE None,
         result_r |-> t.result_r]

\* the return value: the list of feature records, and nothing else
extract_features(trades, default_round_step) ==
    [i \in 1..Len(trades) |-> features_of(trades[i], default_round_step)]

MaxTrades == 2

TradeBase ==
    [trade_id |-> 0, dt_lisbon |-> "2024-03-05T09:30:00", direction |-> "LONG",
     timeframe_min |-> 5, psych_step |-> R(10), psych_level |-> R(2000),
     level_type |-> Some("SUPORTE"), touched_level |-> Some(TRUE),
     rejection |-> Some(TRUE), confirmation |-> None,
     entry |-> R(2001), sl |-> R(1996), tp |-> R(2011), atr14 |-> R(10),
     result_r |-> None]

\* a complete sample; samples without entry, without stop, with a negative
\* target; a sample without ATR, step and level; one with those at 0; one with
\* the stop at the entry
TradeKinds ==
    { TradeBase,
      [TradeBase EXCEPT !.entry = R(0)],
      [TradeBase EXCEPT !.sl = R(0)],
      [TradeBase EXCEPT !.tp = R(-1)],
      [TradeBase EXCEPT !.atr14 = None, !.psych_step = None, !.psych_level = None,
                        !.direction = "short", !.dt_lisbon = "2024-03-05T14:05:00Z",
                        !.result_r = Rat(3, 2)],
      [TradeBase EXCEPT !.atr14 = R(0), !.psych_step = R(0), !.psych_level = R(0)],
      [TradeBase EXCEPT !.sl = R(2001)] }

TradeLists ==
    UNION { { [i \in 1..n |-> [ks[i] EXCEPT !.trade_id = i]] : ks \in [1..n -> TradeKinds] } :
            n \in 0..MaxTrades }

DefaultRoundSteps == {R(10), R(0)}

InitFeatures ==
    /\ InitEngine
    /\ use_lock = FALSE
    /\ InitConc
    /\ relogio = 0
    /\ janela = None
    /\ plan_in = None
    /\ plan = None
    /\ dias = <<>>
    /\ atr14 = None
    /\ fn_args \in {[trades |-> ts, default_round_step |-> st] :
                      ts \in TradeLists, st \in DefaultRoundSteps}
    /\ fn_ret = None

ExtractFeatures ==
    /\ fn_ret = None
    /\ fn_ret' = Some(extract_features(fn_args.trades, fn_args.default_round_step))
    /\ UNCHANGED <<engine_vars, conc_vars, relogio, janela, plan_in, plan, dias, atr14, fn_args>>

NextFeatures == ExtractFeatures

SpecFeatures == InitFeatures /\ [][NextFeatures]_vars

\* a sample with its required fields: entry, stop and target all above 0
TradeCompleto(t) == RGt(t.entry, R(0)) /\ RGt(t.sl, R(0)) /\ RGt(t.tp, R(0))

TradesCompletos == SelectSeq(fn_args.trades, TradeCompleto)

\* C17: extract_features leaves out every trade sample whose entry, stop or
\* target is <= 0, and gives exactly one feature record, in input order, for
\* each of the other samples (the count of the samples left out is then the
\* difference of the two lengths, which the caller is to be given).
C17_SkipsIncompleteSamples ==
    fn_ret # None =>
        /\ Len(fn_ret[1]) = Len(TradesCompletos)
        /\ \A i \in 1..Len(TradesCompletos) :
               i <= Len(fn_ret[1]) => fn_ret[1][i].trade_id = TradesCompletos[i].trade_id


(***************************************************************************)
(* The engine and the candle it is given.                                  *)
(***************************************************************************)

\* C18: a malformed candle (high < low, or a negative price) is rejected at the
\* boundary: the call that carries it returns no signal and leaves the count of
\* its window where the call found it.
C18_MalformedCandleRejected ==
    last.malformado =>
        /\ last.out.ret = None
        /\ last.out.used # None =>
               DictGet(last.out.ops, last.out.janela[1], 0) = last.out.used[1]


(***************************************************************************)
(* What a call leaves alone. The steps below are read as "the call         *)
(* recorded in last' was made on the state _day_key, _ops_by_window".      *)
(***************************************************************************)

\* C19: a call made at a time outside the session returns None and leaves the
\* stored day key and every window count as they were, whatever day key the
\* call carries; a call refused because the count of its window has reached
\* the quota returns None and leaves the counts (and the day key) as they were.
C19_RefusedCallsKeepState ==
    [][ /\ last'.out.janela = None =>
              /\ last'.out.ret = None
              /\ _day_key' = _day_key
              /\ _ops_by_window' = _ops_by_window
        /\ (last'.out.used # None /\ last'.out.used[1] >= max_operacoes_por_janela) =>
              /\ last'.out.ret = None
              /\ _day_key' = _day_key
              /\ _ops_by_window' = _ops_by_window ]_vars

\* after a day with a signal, a call outside the session that carries another
\* day key: the stored day key is still the old one, the count still there
C19_Witness ==
    /\ ncalls > 1
    /\ last.out.janela = None
    /\ _day_key # None
    /\ _day_key # Some(last.day_key)
    /\ \E w \in DOMAIN _ops_by_window : _ops_by_window[w] > 0

\* the counts a call with day key d starts from: the stored ones when d is the
\* stored day key, none when the call first resets
CountsBefore(d) == IF _day_key = Some(d) THEN _ops_by_window ELSE EmptyDict

\* C20: a window count changes only when a signal is created: a call with the
\* stored day key that returns None leaves every count unchanged, and a call
\* that returns a signal increases the count of its resolved window by exactly
\* 1 and the count of no other window (for a call with a new day key, counted
\* from the cleared counts of the new day).
C20_CountsChangeOnlyOnSignal ==
    [][ /\ (_day_key = Some(last'.day_key) /\ last'.out.ret = None) =>
              _ops_by_window' = _ops_by_window
        /\ last'.out.ret # None =>
              /\ last'.out.janela # None
              /\ DictGet(_ops_by_window', last'.out.janela[1], 0)
                     = DictGet(CountsBefore(last'.day_key), last'.out.janela[1], 0) + 1
              /\ \A x \in Labels \ {last'.out.janela[1]} :
                     DictGet(_ops_by_window', x, 0)
                         = DictGet(CountsBefore(last'.day_key), x, 0) ]_vars

\* the first signal of one window, made without a reset, while another window
\* of the same day stands at the quota
C20_Witness ==
    /\ last.out.ret # None
    /\ ~last.out.reset
    /\ last.out.used = Some(0)
    /\ _ops_by_window[last.out.janela[1]] = 1
    /\ \E x \in DOMAIN _ops_by_window :
           x # last.out.janela[1] /\ _ops_by_window[x] = max_operacoes_por_janela


(***************************************************************************)
(* One call of analisar_oportunidade on a new engine, over prices,         *)
(* candles, contexts, times, forced directions and step overrides.         *)
(***************************************************************************)
\* 4705 and 4710 (step 50), 4903.5 (step 10), 5012 (step 20)
SinalPrecos == {R(4705), R(4710), Rat(49035, 10), R(5012)}

\* <<upper wick, lower wick>> of Candle: a strong upper with a weaker lower
\* wick, each wick alone, neither, and a lower wick that reaches far levels
SinalPavios == {<<R(8), R(3)>>, <<Rat(1, 2), R(3)>>, <<R(3), Rat(1, 2)>>,
                <<Rat(1, 2), Rat(1, 2)>>, <<R(1), R(30)>>}

\* recent low and high 5, 50 and 80 from the price, and absent
SinalContextos(preco) ==
    { [minima_recente |-> RSub(preco, R(d)), maxima_recente |-> RAdd(preco, R(d))] :
        d \in {5, 50, 80} }
    \cup { [minima_recente |-> None, maxima_recente |-> None] }

\* no forced direction, valid ones in either case, and one that is not valid
SinalDirecoes == {None, Some("compra"), Some("VENDA"), Some("ambas"), Some("xyz")}

\* outside the session, and inside the windows 23:20-00:30 (VENDA),
\* 00:30-01:30 (AMBAS), 03:00-04:00 (COMPRA) and outside every window (02:00)
SinalAgoras == {HM(22, 0), HM(23, 30), HM(0, 45), HM(3, 30), HM(2, 0)}

SinalSteps == {None, R(25)}

InitSinal ==
    /\ InitEngine
    /\ use_lock = FALSE
    /\ InitConc
    /\ relogio = 0
    /\ janela = None
    /\ plan_in = None
    /\ plan = None
    /\ dias = <<>>
    /\ atr14 = None
    /\ fn_args \in {[preco_atual |-> pr, candle |-> Candle(pr, w[1], w[2]), contexto |-> c,
                     agora |-> t, day_key |-> 1, direcao_esperada |-> d, step_dia |-> st] :
                      pr \in SinalPrecos, w \in SinalPavios,
                      c \in UNION {SinalContextos(q) : q \in SinalPrecos},
                      t \in SinalAgoras, d \in SinalDirecoes, st \in SinalSteps}
    /\ fn_args.contexto \in SinalContextos(fn_args.preco_atual)
    /\ fn_ret = None

\* the call: the engine's day key and counts after it, and what it returned
AnalisarSinal ==
    /\ fn_ret = None
    /\ \E out \in {analisar_oportunidade(_day_key, _ops_by_window, fn_args.preco_atual,
                                         fn_args.candle, fn_args.contexto, fn_args.agora,
                                         fn_args.day_key, fn_args.direcao_esperada,
                                         fn_args.step_dia)} :
          /\ _day_key' = out.day
          /\ _ops_by_window' = out.ops
          /\ fn_ret' = Some(out)
    /\ UNCHANGED <<last, cur_day, got, since_reset, issued, resets, ncalls, conc_vars,
                   relogio, janela, plan_in, plan, dias, atr14, fn_args>>

NextSinal == AnalisarSinal

SpecSinal == InitSinal /\ [][NextSinal]_vars


\* the value the call returned: None or <<signal>>
SinalRet == fn_ret[1].ret

\* the caller forces a direction that reads COMPRA, VENDA or AMBAS
ForcadaValida ==
    /\ fn_args.direcao_esperada # None
    /\ str_upper(fn_args.direcao_esperada[1]) \in {"COMPRA", "VENDA", "AMBAS"}

\* the forced direction when it is valid, else the window's expected direction
DirecaoPedida ==
    IF ForcadaValida THEN str_upper(fn_args.direcao_esperada[1])
    ELSE janela_atual(fn_args.agora)[3][1]

\* C21: the directions tried are those of the forced direction when it is a
\* valid one and otherwise those of the resolved window's expected direction,
\* AMBAS standing for COMPRA then VENDA: the call returns what the scan of
\* those directions returns, so a signal is a BUY when that direction is
\* COMPRA and a SELL when it is VENDA.
C21_DirectionsTried ==
    (fn_ret # None /\ janela_atual(fn_args.agora)[1]) =>
        /\ SinalRet = scan(fn_args.preco_atual, fn_args.candle, fn_args.contexto,
                           Some(DirecaoPedida), janela_atual(fn_args.agora)[2][1],
                           janela_atual(fn_args.agora)[3], fn_args.step_dia)
        /\ SinalRet # None =>
              /\ DirecaoPedida = "COMPRA" => SinalRet[1].direcao = "BUY"
              /\ DirecaoPedida = "VENDA" => SinalRet[1].direcao = "SELL"


\* the step of the levels and targets of the call
SinalStep ==
    IF StepGiven(fn_args.step_dia) THEN fn_args.step_dia
    ELSE identificar_step_do_dia(fn_args.preco_atual)

\* the values a level can take: the multiples of the step up to 40 steps either
\* side of the price rounded to the step, above 0
SinalValores ==
    {v \in {RAdd(RMul(R(PyRound(RDiv(fn_args.preco_atual, SinalStep))), SinalStep),
                 RMul(R(k), SinalStep)) : k \in -40..40} : RGt(v, R(0))}

SinalDist(v) == RAbs(RSub(v, fn_args.preco_atual))

\* a is scanned before b: nearer to the price, or as near and lower
NivelAntes(a, b) ==
    RLt(SinalDist(a), SinalDist(b)) \/ (SinalDist(a) = SinalDist(b) /\ RLt(a, b))

\* the 5 values nearest to the price
CincoNiveis ==
    Let(SinalValores, LAMBDA vs :
        Let({<<v, SinalDist(v)>> : v \in vs}, LAMBDA vd :
            {a[1] : a \in {x \in vd :
                Cardinality({y \in vd : RLt(y[2], x[2]) \/ (y[2] = x[2] /\ RLt(y[1], x[1]))}) < 5}}))

\* the directions the call tries
SinalDirs ==
    LET d == resolver_direcao(fn_args.direcao_esperada, janela_atual(fn_args.agora)[3])
    IN  IF d = "AMBAS" THEN {"COMPRA", "VENDA"} ELSE {d}

LadoDe(d) == IF d = "COMPRA" THEN "BUY" ELSE "SELL"

ForcaDe(v, d) == detectar_rejeicao(fn_args.candle, v, d)[2]

\* the structural stop of the pair, before any adjustment
StopEstrutural(v, d) == calcular_stop(LadoDe(d), v, fn_args.contexto, stop_minimo)

\* the pair (level value, direction) qualifies
Qualifica(v, d) ==
    /\ detectar_rejeicao(fn_args.candle, v, d)[1]
    /\ RGe(ForcaDe(v, d), forca_rejeicao_min)
    /\ RGe(risco_pontos(fn_args.preco_atual, StopEstrutural(v, d)), stop_apertado_limite)
    /\ gerar_alvos(fn_args.preco_atual, LadoDe(d), SinalStep) # <<>>

Qualificados ==
    Let(CincoNiveis, LAMBDA cinco : {q \in cinco \X SinalDirs : Qualifica(q[1], q[2])})

ParAntes(q, r) ==
    NivelAntes(q[1], r[1]) \/ (q[1] = r[1] /\ q[2] = "COMPRA" /\ r[2] = "VENDA")

\* the pair of Q that is scanned before every other pair of Q
PrimeiroPar(Q) == CHOOSE q \in Q : \A r \in Q \ {q} : ParAntes(q, r)

EmSessao == fn_ret # None /\ janela_atual(fn_args.agora)[1]

\* C22: the signal returned is that of the first qualifying (level, direction)
\* pair, the 5 levels nearest to the price taken nearest first (as near: lower
\* first) and, within a level, COMPRA before VENDA; with no qualifying pair
\* among them there is no signal.
C22_FirstQualifyingPair ==
    EmSessao =>
        Let(Qualificados, LAMBDA Q :
            IF Q = {} THEN SinalRet = None
            ELSE Let(PrimeiroPar(Q), LAMBDA pp :
                     /\ SinalRet # None
                     /\ SinalRet[1].nivel_testado = pp[1]
                     /\ SinalRet[1].direcao = LadoDe(pp[2])
                     /\ SinalRet[1].forca_rejeicao = ForcaDe(pp[1], pp[2])))

\* a signal returned while a later pair qualifies with a stronger rejection
C22_Witness ==
    /\ EmSessao
    /\ SinalRet # None
    /\ Let(Qualificados, LAMBDA Q :
           \E r \in Q : /\ ParAntes(PrimeiroPar(Q), r)
                        /\ RGt(ForcaDe(r[1], r[2]), SinalRet[1].forca_rejeicao))


\* the context carries a recent low and a recent high
ComContexto ==
    fn_args.contexto.minima_recente # None /\ fn_args.contexto.maxima_recente # None

\* min(recent low - 2, level - stop_minimo) for a BUY,
\* max(recent high + 2, level + stop_minimo) for a SELL
StopDoNivel(v, lado) ==
    IF lado = "BUY"
    THEN RMin(RSub(fn_args.contexto.minima_recente, R(2)), RSub(v, stop_minimo))
    ELSE RMax(RAdd(fn_args.contexto.maxima_recente, R(2)), RAdd(v, stop_minimo))

RiscoDoNivel(v, lado) == RAbs(RSub(fn_args.preco_atual, StopDoNivel(v, lado)))

C24_TargetsFavourableSide ==
    (fn_ret # None /\ SinalRet # None) =>
        Let(SinalRet[1].alvos, LAMBDA alvos :
            /\ Len(alvos) >= 1
            /\ Len(alvos) <= numero_alvos
            /\ \A i \in 1..Len(alvos) :
                  /\ IF SinalRet[1].direcao = "BUY" THEN RGt(alvos[i], fn_args.preco_atual)
                     ELSE RLt(alvos[i], fn_args.preco_atual)
                  /\ RIsInt(RDiv(alvos[i], SinalStep))
            /\ \A i \in 1..(Len(alvos) - 1) :
                  IF SinalRet[1].direcao = "BUY"
                  THEN RSub(alvos[i + 1], alvos[i]) = SinalStep
                  ELSE RSub(alvos[i], alvos[i + 1]) = SinalStep)

\* a SELL under the step override 25 at 5012, which rounds to 5000: the
\* rounded price lies below the price and still is no target
C24_Witness ==
    /\ fn_ret # None
    /\ SinalRet # None
    /\ SinalRet[1].direcao = "SELL"
    /\ fn_args.step_dia = R(25)
    /\ fn_args.preco_atual = R(5012)
    /\ SinalRet[1].alvos = <<R(4975), R(4950), R(4925), R(4900)>>

\* C28: every signal returned has its stop on the loss side of its entry:
\* below the entry for a BUY, above it for a SELL.
C28_StopOnLossSide ==
    (fn_ret # None /\ SinalRet # None) =>
        IF SinalRet[1].direcao = "BUY" THEN RLt(SinalRet[1].stop, SinalRet[1].entrada)
        ELSE RGt(SinalRet[1].stop, SinalRet[1].entrada)


(***************************************************************************)
(* build_entry_plan on long histories: blocks of equal rows, so many of    *)
(* each kind, around the cohort size 80 and the thresholds of the decision.*)
(***************************************************************************)
\* opens at a round number: a rising and a falling H1, with ATR
NearUp == [open |-> R(2000), h1_high |-> R(2006), h1_low |-> R(1997), h1_close |-> R(2004), atr14 |-> R(10)]
NearDown == [open |-> R(2001), h1_high |-> R(2003), h1_low |-> R(1993), h1_close |-> R(1995), atr14 |-> R(20)]
\* opens 5 from a round number: a rising and a falling H1 of a few tenths, no ATR
FarUp == [open |-> R(2005), h1_high |-> Rat(20052, 10), h1_low |-> Rat(20049, 10), h1_close |-> Rat(20051, 10), atr14 |-> None]
FarDown == [open |-> R(2005), h1_high |-> Rat(20052, 10), h1_low |-> Rat(20049, 10), h1_close |-> Rat(20049, 10), atr14 |-> None]
\* a row without H1 columns
SemH1 == [open |-> R(2000), h1_high |-> None, h1_low |-> None, h1_close |-> None, atr14 |-> None]

\* n rows of kind k, dated from d + 1
Bloco(k, n, d) == [i \in 1..n |-> Row(k, d + i)]

\* <<rising, falling>> rows at a round number: cohorts of 80 and 100 rows at
\* and next to the shares 0.55 and 0.45, cohorts of 79 and 80 rows of one
\* kind, 40 rows at and next to the means 0.05 and -0.05, and none
NearCounts ==
    { <<44, 36>>, <<43, 37>>, <<37, 43>>, <<36, 44>>, <<55, 45>>, <<54, 46>>,
      <<46, 54>>, <<45, 55>>, <<79, 0>>, <<0, 79>>, <<80, 0>>, <<21, 19>>,
      <<20, 20>>, <<19, 21>>, <<0, 0>> }

\* <<rising, falling>> rows away from a round number
FarCounts == { <<0, 0>>, <<0, 80>>, <<100, 0>>, <<1, 1>> }

SemH1Counts == {0, 2}

HistoriaDe(nc, fc, e) ==
    Bloco(NearUp, nc[1], 0) \o Bloco(NearDown, nc[2], nc[1])
        \o Bloco(FarUp, fc[1], nc[1] + nc[2]) \o Bloco(FarDown, fc[2], nc[1] + nc[2] + fc[1])
        \o Bloco(SemH1, e, nc[1] + nc[2] + fc[1] + fc[2])

CoorteInputs ==
    { [history |-> HistoriaDe(nc, fc, e), reference_price |-> ref, round_step |-> st,
       round_proximity |-> Rat(3, 2), min_rr |-> R(2),
       account_balance |-> ac[1], risk_percent |-> ac[2], contract_size |-> R(100)] :
      nc \in NearCounts, fc \in FarCounts, e \in SemH1Counts,
      ref \in {Rat(4001, 2), R(2005)}, st \in {R(10)}, ac \in Accounts }

InitCoorte ==
    /\ InitEngine
    /\ use_lock = FALSE
    /\ InitConc
    /\ relogio = 0
    /\ janela = None
    /\ plan_in \in CoorteInputs
    /\ plan = None
    /\ dias = <<>>
    /\ atr14 = None
    /\ fn_args = None
    /\ fn_ret = None

SpecCoorte == InitCoorte /\ [][NextPlan]_vars


\* the rows of the history with complete H1 data, by their places
CoorteH1 ==
    {i \in DOMAIN plan_in.history :
        /\ plan_in.history[i].open # None
        /\ plan_in.history[i].h1_high # None
        /\ plan_in.history[i].h1_low # None
        /\ plan_in.history[i].h1_close # None}

\* x is within tol of a multiple of step (step > 0): of the multiple below it
\* or of the one above
PertoDeMultiplo(x, step, tol) ==
    Let(RMul(R(RFloor(RDiv(x, step))), step), LAMBDA abaixo :
        RLe(RSub(x, abaixo), tol) \/ RLe(RSub(RAdd(abaixo, step), x), tol))

\* the round-number cohort
Coorte ==
    {i \in CoorteH1 :
        PertoDeMultiplo(plan_in.history[i].open, plan_in.round_step, plan_in.round_proximity)}

Subiu(i) == RGt(plan_in.history[i].h1_close, plan_in.history[i].open)

\* the direction decided from n rows of which u closed above the open, by
\* the share u / n against 0.55 and 0.45
PorCoorte(u, n) ==
    IF 100 * u >= 55 * n THEN "LONG"
    ELSE IF 100 * u <= 45 * n THEN "SHORT"
    ELSE "NEUTRAL"

\* by the mean of +1 / -1, (u - (n - u)) / n, against 0.05 and -0.05
PorMedia(u, n) ==
    IF 100 * (2 * u - n) >= 5 * n THEN "LONG"
    ELSE IF 100 * (2 * u - n) <= -5 * n THEN "SHORT"
    ELSE "NEUTRAL"

\* C25: with a round-number cohort of at least 80 rows the plan is LONG when
\* the cohort's share of days closing above the open is >= 0.55, SHORT when it
\* is <= 0.45 and NEUTRAL otherwise, with no fallback; with a smaller cohort it
\* is LONG when the mean per-day direction over all H1 rows is >= 0.05, SHORT
\* when it is <= -0.05 and NEUTRAL otherwise.
C25_DirectionDecision ==
    (plan # None /\ CoorteH1 # {}) =>
        Let(Coorte, LAMBDA co :
            plan[1].direction =
                IF Cardinality(co) >= 80
                THEN PorCoorte(Cardinality({i \in co : Subiu(i)}), Cardinality(co))
                ELSE PorMedia(Cardinality({i \in CoorteH1 : Subiu(i)}), Cardinality(CoorteH1)))

\* a cohort of 80 rows with a share between the thresholds, in a history whose
\* mean direction is above 0.05: the plan stays NEUTRAL
C25_Witness ==
    /\ plan # None
    /\ plan[1].direction = "NEUTRAL"
    /\ Cardinality(Coorte) = 80
    /\ PorCoorte(Cardinality({i \in Coorte : Subiu(i)}), 80) = "NEUTRAL"
    /\ PorMedia(Cardinality({i \in CoorteH1 : Subiu(i)}), Cardinality(CoorteH1)) = "LONG"

\* C30: for a non-empty history (min_rr > 0) the plan has stop_distance >= 0.5
\* and |entry - stop| = stop_distance, with stop < entry < take_profit when
\* LONG or NEUTRAL and take_profit < entry < stop when SHORT; and with balance
\* and risk percent supplied and contract_size > 0, lots is present and is
\* risk_amount / (stop_distance * contract_size), risk_amount being
\* balance * risk_percent / 100.
C30_PlanBracket ==
    (plan # None /\ plan_in.history # <<>> /\ RGt(plan_in.min_rr, R(0))) =>
        /\ RGe(plan[1].stop_distance, Rat(1, 2))
        /\ RAbs(RSub(plan[1].entry, plan[1].stop)) = plan[1].stop_distance
        /\ IF plan[1].direction = "SHORT"
           THEN RLt(plan[1].take_profit, plan[1].entry) /\ RLt(plan[1].entry, plan[1].stop)
           ELSE RLt(plan[1].stop, plan[1].entry) /\ RLt(plan[1].entry, plan[1].take_profit)
        /\ (/\ plan_in.account_balance # None
            /\ plan_in.risk_percent # None
            /\ RGt(plan_in.contract_size, R(0))) =>
              /\ plan[1].risk_amount =
                     RDiv(RMul(plan_in.account_balance, plan_in.risk_percent), R(100))
              /\ plan[1].lots # None
              /\ plan[1].lots = RDiv(plan[1].risk_amount,
                                     RMul(plan[1].stop_distance, plan_in.contract_size))

\* a SHORT plan sized from an account, its stop distance held at the floor 0.5
\* over a median adverse move of 0.2
C30_Witness ==
    /\ plan # None
    /\ plan[1].direction = "SHORT"
    /\ plan[1].stop_distance = Rat(1, 2)
    /\ plan[1].stats.median_up_h1 = Rat(1, 5)
    /\ plan[1].lots = R(2)

(***************************************************************************)
(* The quota on a clock                                                    *)
(***************************************************************************)
\* the passes <<i, j>> of the clock through window w: it showed a time of w
\* at every instant from i to j
Passagens(w) ==
    {p \in (1..Len(Instantes)) \X (1..Len(Instantes)) :
        /\ p[1] <= p[2]
        /\ \A k \in p[1]..p[2] :
              /\ janela_atual(Instantes[k][2])[1]
              /\ janela_atual(Instantes[k][2])[2] = Some(w)}

\* the signals issued under label w on the dates of pass p; on this clock a
\* window is passed once, so these are the signals of the pass
SinaisDaPassagem(w, p) ==
    ISum([d \in 1..MaxDay |->
            IF d \in {Instantes[k][1] : k \in p[1]..p[2]} THEN issued[<<d, w>>] ELSE 0])

\* C29: with the day key the calendar date of the call, the signals issued
\* during one continuous pass through a window never number more than
\* max_operacoes_por_janela, also when the pass goes over midnight.
C29_OneQuotaPerPass ==
    \A w \in Labels : \A p \in Passagens(w) :
        SinaisDaPassagem(w, p) <= max_operacoes_por_janela

====
